---- MODULE Spec2Model ----
(***************************************************************************)
(* A model of the todo-task server (src/server/server.js): the user file,  *)
(* the session codec, the authenticate middleware and the login, session   *)
(* and task route handlers, together with the client's login form.         *)
(*                                                                         *)
(* Strings are sequences of one-character strings, so that trim, split and *)
(* base64 are computed rather than assumed.  A JSON value of a request     *)
(* body is a record [t, s, b, n] tagged with its JavaScript type.          *)
(***************************************************************************)
EXTENDS Integers, Sequences, FiniteSets, TLC

(***************************************************************************)
(* Bounds of the model.                                                    *)
(***************************************************************************)
\* how many identifiers crypto.randomUUID() hands out in one behaviour
MaxUUID == 2
\* the longest subtask array the percentage calculation is explored on
MaxTotal == 40
MaxSent == 2
Overshoot == 3
\* how many task requests the client sends to the server in one behaviour
MaxCalls == 2

(***************************************************************************)
(* Strings.                                                                *)
(***************************************************************************)
Front(s) == SubSeq(s, 1, Len(s) - 1)
Last(s) == s[Len(s)]

IsSpace(c) == c = " "

RECURSIVE TrimStart(_)
TrimStart(s) == IF s # <<>> /\ IsSpace(Head(s)) THEN TrimStart(Tail(s)) ELSE s

RECURSIVE TrimEnd(_)
TrimEnd(s) == IF s # <<>> /\ IsSpace(Last(s)) THEN TrimEnd(Front(s)) ELSE s

\* String.prototype.trim
Trim(s) == TrimEnd(TrimStart(s))

\* decoded.split(":")[0]: the text before the first ":" (all of it if none)
RECURSIVE FirstField(_)
FirstField(s) ==
    IF s = <<>> \/ Head(s) = ":" THEN <<>> ELSE <<Head(s)>> \o FirstField(Tail(s))

\* the ASCII characters the model's strings are made of, by code ranges
Chars48 == << "0", "1", "2", "3", "4", "5", "6", "7", "8", "9", ":" >>
Chars65 ==
    << "A", "B", "C", "D", "E", "F", "G", "H", "I", "J", "K", "L", "M",
       "N", "O", "P", "Q", "R", "S", "T", "U", "V", "W", "X", "Y", "Z" >>
Chars97 ==
    << "a", "b", "c", "d", "e", "f", "g", "h", "i", "j", "k", "l", "m",
       "n", "o", "p", "q", "r", "s", "t", "u", "v", "w", "x", "y", "z" >>

IndexIn(c, tbl) == CHOOSE i \in 1..Len(tbl) : tbl[i] = c
Occurs(c, tbl) == \E i \in 1..Len(tbl) : tbl[i] = c

CharCode(c) ==
    IF c = " " THEN 32
    ELSE IF Occurs(c, Chars48) THEN 47 + IndexIn(c, Chars48)
    ELSE IF Occurs(c, Chars65) THEN 64 + IndexIn(c, Chars65)
    ELSE 96 + IndexIn(c, Chars97)

CodeChar(b) ==
    IF b = 32 THEN " "
    ELSE IF b >= 48 /\ b <= 58 THEN Chars48[b - 47]
    ELSE IF b >= 65 /\ b <= 90 THEN Chars65[b - 64]
    ELSE IF b >= 97 /\ b <= 122 THEN Chars97[b - 96]
    ELSE "?"

\* Buffer.from(str): the bytes of an ASCII string
Bytes(s) == [i \in 1..Len(s) |-> CharCode(s[i])]
\* buffer.toString(): the text of ASCII bytes
Text(bs) == [i \in 1..Len(bs) |-> CodeChar(bs[i])]

(***************************************************************************)
(* Base64, as Buffer.toString("base64") and Buffer.from(x, "base64").      *)
(***************************************************************************)
B64Chars == Chars65 \o Chars97 \o SubSeq(Chars48, 1, 10) \o << "+", "/" >>

B64Char(v) == B64Chars[v + 1]
IsB64Char(c) == \E i \in 1..Len(B64Chars) : B64Chars[i] = c
B64Value(c) == (CHOOSE i \in 1..Len(B64Chars) : B64Chars[i] = c) - 1

RECURSIVE Base64Encode(_)
Base64Encode(bs) ==
    IF bs = <<>> THEN <<>>
    ELSE IF Len(bs) = 1 THEN
        << B64Char(bs[1] \div 4), B64Char((bs[1] % 4) * 16), "=", "=" >>
    ELSE IF Len(bs) = 2 THEN
        << B64Char(bs[1] \div 4),
           B64Char((bs[1] % 4) * 16 + bs[2] \div 16),
           B64Char((bs[2] % 16) * 4), "=" >>
    ELSE
        << B64Char(bs[1] \div 4),
           B64Char((bs[1] % 4) * 16 + bs[2] \div 16),
           B64Char((bs[2] % 16) * 4 + bs[3] \div 64),
           B64Char(bs[3] % 64) >> \o Base64Encode(SubSeq(bs, 4, Len(bs)))

\* the base64 digits of a string up to its first "=", other characters skipped
RECURSIVE B64Digits(_)
B64Digits(s) ==
    IF s = <<>> \/ Head(s) = "=" THEN <<>>
    ELSE IF IsB64Char(Head(s)) THEN <<B64Value(Head(s))>> \o B64Digits(Tail(s))
    ELSE B64Digits(Tail(s))

RECURSIVE DecodeDigits(_)
DecodeDigits(d) ==
    IF Len(d) < 2 THEN <<>>
    ELSE IF Len(d) = 2 THEN << d[1] * 4 + d[2] \div 16 >>
    ELSE IF Len(d) = 3 THEN
        << d[1] * 4 + d[2] \div 16, (d[2] % 16) * 16 + d[3] \div 4 >>
    ELSE
        << d[1] * 4 + d[2] \div 16,
           (d[2] % 16) * 16 + d[3] \div 4,
           (d[3] % 4) * 64 + d[4] >> \o DecodeDigits(SubSeq(d, 5, Len(d)))

Base64Decode(s) == DecodeDigits(B64Digits(s))

(***************************************************************************)
(* The session codec.                                                      *)
(***************************************************************************)
\* generateSessionToken: base64 of `${userId}:${timestamp}:${random}`
generateSessionToken(userId, timestamp, random) ==
    Base64Encode(Bytes(userId \o <<":">> \o timestamp \o <<":">> \o random))

\* const [userId] = Buffer.from(sessionToken, "base64").toString().split(":")
DecodeUserId(sessionToken) == FirstField(Text(Base64Decode(sessionToken)))

(***************************************************************************)
(* IEEE-754 double arithmetic, as far as the percentage calculation uses   *)
(* it: a quotient of two small integers, a product with 100, Math.round.   *)
(* A double is [zero, exp, man]: man is its 53-bit significand, most       *)
(* significant bit first, and exp the exponent of that first bit.          *)
(***************************************************************************)
MantissaBits == 53
\* binary digits are produced and multiplied ChunkBits at a time
ChunkBits == 9

\* the w binary digits of d, most significant first
BitsOf(d, w) == [i \in 1..w |-> (d \div 2^(w - i)) % 2]

RECURSIVE NormStart(_, _, _)
NormStart(r, n, e) ==
    IF r >= n THEN [r |-> r, e |-> e] ELSE NormStart(2 * r, n, e - 1)

\* k chunks of binary digits of the fraction r / n (r < n), and the remainder
RECURSIVE FracChunks(_, _, _)
FracChunks(r, n, k) ==
    IF k = 0 THEN [bits |-> <<>>, rem |-> r]
    ELSE LET d == (r * 2^ChunkBits) \div n
             rest == FracChunks((r * 2^ChunkBits) % n, n, k - 1)
         IN [bits |-> BitsOf(d, ChunkBits) \o rest.bits, rem |-> rest.rem]

\* b + 1 for binary digits b that are not all ones
IncBits(b) ==
    LET j == CHOOSE j \in 1..Len(b) : b[j] = 0 /\ \A i \in (j + 1)..Len(b) : b[i] = 1
    IN [i \in 1..Len(b) |-> IF i < j THEN b[i] ELSE IF i = j THEN 1 ELSE 0]

AllOnes(b) == \A i \in 1..Len(b) : b[i] = 1

\* round to nearest, ties to even: the double nearest to 1.bits * 2^e, where
\* sticky tells of nonzero digits beyond those given
RoundToDouble(bits, sticky, e) ==
    LET m == SubSeq(bits, 1, MantissaBits)
        guard == bits[MantissaBits + 1]
        rest == sticky \/ \E i \in (MantissaBits + 2)..Len(bits) : bits[i] = 1
        up == guard = 1 /\ (rest \/ m[MantissaBits] = 1)
    IN IF ~up THEN [zero |-> FALSE, exp |-> e, man |-> m]
       ELSE IF AllOnes(m) THEN
           [zero |-> FALSE, exp |-> e + 1,
            man |-> <<1>> \o [i \in 1..(MantissaBits - 1) |-> 0]]
       ELSE [zero |-> FALSE, exp |-> e, man |-> IncBits(m)]

FloatZero == [zero |-> TRUE, exp |-> 0, man |-> [i \in 1..MantissaBits |-> 0]]

\* c / n for integers 0 <= c <= n, n > 0
FloatDiv(c, n) ==
    IF c = 0 THEN FloatZero
    ELSE LET s == NormStart(c, n, 0)
             g == FracChunks(s.r - n, n, 6)
         IN RoundToDouble(<<1>> \o g.bits, g.rem # 0, s.e)

RECURSIVE ToBits(_)
ToBits(k) == IF k = 0 THEN <<>> ELSE ToBits(k \div 2) \o <<k % 2>>

RECURSIVE BitsToInt(_)
BitsToInt(b) == IF b = <<>> THEN 0 ELSE 2 * BitsToInt(Front(b)) + Last(b)

\* the binary digits of bits * m + carry, a limb of ChunkBits digits at a time
\* from the least significant end
RECURSIVE MulLimbs(_, _, _)
MulLimbs(bits, m, carry) ==
    IF bits = <<>> THEN ToBits(carry)
    ELSE LET w == IF Len(bits) >= ChunkBits THEN ChunkBits ELSE Len(bits)
             limb == BitsToInt(SubSeq(bits, Len(bits) - w + 1, Len(bits)))
             t == limb * m + carry
         IN MulLimbs(SubSeq(bits, 1, Len(bits) - w), m, t \div 2^w)
            \o BitsOf(t % 2^w, w)

\* f * m for a small positive integer m
FloatMul(f, m) ==
    IF f.zero THEN FloatZero
    ELSE LET p == MulLimbs(f.man, m, 0)
         IN RoundToDouble(p \o <<0>>, FALSE,
                          f.exp - (MantissaBits - 1) + (Len(p) - 1))

\* Math.round: the nearest integer, a tie going up
MathRound(f) ==
    IF f.zero \/ f.exp < -1 THEN 0
    ELSE IF f.exp = -1 THEN 1
    ELSE BitsToInt(SubSeq(f.man, 1, f.exp + 1)) + f.man[f.exp + 2]

(***************************************************************************)
(* JSON values of a request body, tagged with their JavaScript type.  A    *)
(* field that is absent from the body reads as undefined.                  *)
(***************************************************************************)
Undef == [t |-> "undefined", s |-> <<>>, b |-> FALSE, n |-> 0]
StrV(x) == [t |-> "string", s |-> x, b |-> FALSE, n |-> 0]
BoolV(x) == [t |-> "boolean", s |-> <<>>, b |-> x, n |-> 0]
NumV(x) == [t |-> "number", s |-> <<>>, b |-> FALSE, n |-> x]

\* !!v
Truthy(v) ==
    \/ v.t = "string" /\ v.s # <<>>
    \/ v.t = "boolean" /\ v.b
    \/ v.t = "number" /\ v.n # 0

\* v?.trim() throws a TypeError when v is neither nullish nor a string
TrimThrows(v) == v.t \in {"boolean", "number"}
\* v?.trim()
OptTrim(v) == IF v.t = "string" THEN StrV(Trim(v.s)) ELSE Undef
\* a || b
OrElse(a, b) == IF Truthy(a) THEN a ELSE b

(***************************************************************************)
(* Records of the user file, requests and responses.                       *)
(***************************************************************************)
NoTask ==
    [id |-> <<>>, title |-> Undef, subTasks |-> <<>>, percentage |-> 0,
     date |-> Undef, time |-> Undef, icon |-> Undef]

NoUser ==
    [id |-> <<>>, email |-> <<>>, password |-> <<>>, hasTasks |-> FALSE, tasks |-> <<>>]

NoSubTasks == [t |-> "undefined", a |-> <<>>]
ArrayV(a) == [t |-> "array", a |-> a]

\* a request body: every field absent
EmptyBody ==
    [email |-> Undef, password |-> Undef, rememberMe |-> Undef,
     id |-> Undef, title |-> Undef, percentage |-> Undef,
     date |-> Undef, time |-> Undef, icon |-> Undef, subTasks |-> NoSubTasks]

NoCookie == [present |-> FALSE, v |-> <<>>]

\* fs.readFile and fs.writeFile both succeed
DiskOk == [read |-> TRUE, write |-> TRUE]
CookieV(v) == [present |-> TRUE, v |-> v]

\* what a response keeps of the response sent just before it
NoPrev ==
    [kind |-> "none", status |-> 0, caller |-> <<>>, token |-> <<>>,
     task |-> NoTask, before |-> <<>>]

NoResp ==
    [kind |-> "none", origin |-> "api", ticked |-> FALSE,
     cookie |-> NoCookie, param |-> <<>>, body |-> EmptyBody,
     ran |-> FALSE, caller |-> <<>>, status |-> 0, error |-> "",
     cleared |-> FALSE, setCookie |-> FALSE, token |-> <<>>,
     hasMaxAge |-> FALSE, maxAge |-> 0,
     hasTask |-> FALSE, task |-> NoTask, tasks |-> <<>>,
     hasUser |-> FALSE, user |-> NoUser,
     fileBefore |-> <<>>, snapshot |-> <<>>, out |-> <<>>,
     goneBefore |-> FALSE, escaped |-> FALSE,
     step |-> "arrival", disk |-> DiskOk, prev |-> NoPrev]

IdleSlot ==
    [pc |-> "idle", kind |-> "none", cookie |-> NoCookie, param |-> <<>>,
     body |-> EmptyBody, user |-> NoUser, fileBefore |-> <<>>,
     snapshot |-> <<>>, out |-> <<>>, hasTask |-> FALSE, task |-> NoTask,
     uuidBase |-> 0]

(***************************************************************************)
(* The state.                                                              *)
(***************************************************************************)
VARIABLES
    users,      \* the parsed contents of users.json
    reqs,       \* per connection: the task request being handled, if any
    resps,      \* per connection: the last response sent on it
    lastSlot,   \* the connection the most recent response went out on
    nextUUID,   \* how many identifiers crypto.randomUUID() has handed out
    deleted,    \* history: the <<caller, task id>> pairs a DELETE has removed
    pctIn,      \* percentage calculation alone: the subtasks given to it
    pctOut,     \* percentage calculation alone: its result (-1: not run yet)
    disk,       \* whether fs.readFile / fs.writeFile on users.json fail now
    up,         \* the server process is running
    auth,       \* client: the auth slice of the store
    taskState,  \* client: the tasks slice of the store
    flight,     \* client: the requests sent and not yet settled
    sent,       \* client: how many requests of each kind it has sent
    jar,        \* client: the session cookie the browser holds
    issued,     \* history: the tokens logins have set, and whether signed out
    progress,   \* client: the progress circle drawn for a percentage
    view        \* client: the route shown and the task view's own state

vars == <<users, reqs, resps, lastSlot, nextUUID, deleted, pctIn, pctOut,
          disk, up, auth, taskState, flight, sent, jar, issued, progress,
          view>>
serverVars == <<users, reqs, resps, lastSlot, nextUUID, deleted>>
pctVars == <<pctIn, pctOut>>
envVars == <<disk, up>>
clientVars == <<auth, taskState, flight, sent, jar, issued, progress, view>>

Slots == {1, 2}

(***************************************************************************)
(* The seed file and the inputs explored.                                  *)
(***************************************************************************)
SeedTask ==
    [id |-> <<"t", "0">>, title |-> StrV(<<"a">>), subTasks |-> <<>>,
     percentage |-> 0, date |-> StrV(<<"d">>), time |-> StrV(<<"h">>),
     icon |-> Undef]

SeedTask2 ==
    [SeedTask EXCEPT !.id = <<"t", "1">>, !.title = StrV(<<"b">>)]

\* a user with two tasks, a user record without a tasks array, and a user
\* whose id holds the separator of the session token
SeedUsers ==
    << [id |-> <<"1">>, email |-> <<"a">>, password |-> <<"p">>,
        hasTasks |-> TRUE, tasks |-> <<SeedTask, SeedTask2>>],
       [id |-> <<"2">>, email |-> <<"b">>, password |-> <<"q">>,
        hasTasks |-> FALSE, tasks |-> <<>>],
       [id |-> <<"1", ":", "2">>, email |-> <<"c">>, password |-> <<"r">>,
        hasTasks |-> TRUE, tasks |-> <<>>] >>

\* Date.now() and crypto.randomBytes(16).toString("hex") at a login
Timestamps == {<<"7">>}
Randoms == {<<"a", "f">>}

\* new Date().toISOString().split("T")[0] and toLocaleTimeString(...)
Today == StrV(<<"D">>)
NowTime == StrV(<<"H">>)

\* crypto.randomUUID(): the k-th identifier handed out
UUID(k) == <<"u", Chars48[k + 1]>>

(***************************************************************************)
(* The file and lookups in it.                                             *)
(***************************************************************************)
\* readUsers: the parsed file, or [] when reading fails (the catch block)
readUsers(file) == IF disk.read THEN file ELSE <<>>

\* writeUsers: the whole file is replaced by the array given; when
\* fs.writeFile fails the file stays as it was and the error is rethrown
writeUsers(file, out) == IF disk.write THEN out ELSE file
WriteThrows == ~disk.write

\* users.findIndex((u) => String(u.id) === userId), 0 for -1
FindUser(file, userId) ==
    IF \E i \in 1..Len(file) : file[i].id = userId
    THEN CHOOSE i \in 1..Len(file) :
            /\ file[i].id = userId
            /\ \A j \in 1..(i - 1) : file[j].id # userId
    ELSE 0

\* tasks.findIndex((t) => t.id === taskId), 0 for -1
FindTask(tasks, taskId) ==
    IF \E i \in 1..Len(tasks) : tasks[i].id = taskId
    THEN CHOOSE i \in 1..Len(tasks) :
            /\ tasks[i].id = taskId
            /\ \A j \in 1..(i - 1) : tasks[j].id # taskId
    ELSE 0

\* a splice that removes nothing
SpliceNothing(tasks, i) == tasks

\* tasks.splice(taskIndex, 1)
Splice(tasks, i) == SubSeq(tasks, 1, i - 1) \o SubSeq(tasks, i + 1, Len(tasks))

\* userData.tasks || []
TasksOrEmpty(u) == IF u.hasTasks THEN u.tasks ELSE <<>>

\* a userData that keeps the password
UserDataWithPassword(u) == [u EXCEPT !.hasTasks = TRUE, !.tasks = TasksOrEmpty(u)]

\* const { password, ...userData } = user; { ...userData, tasks: userData.tasks || [] }
UserData(u) == [u EXCEPT !.password = <<>>, !.hasTasks = TRUE, !.tasks = TasksOrEmpty(u)]

\* a middleware that admits only tokens of the form id:timestamp:random
authenticateCheckingFields(cookie, file) ==
    IF ~cookie.present \/ cookie.v = <<>> THEN
        [ok |-> FALSE, status |-> 401, error |-> "Not authenticated",
         cleared |-> FALSE, user |-> NoUser]
    ELSE LET userId == DecodeUserId(cookie.v)
             decoded == Text(Base64Decode(cookie.v))
         IN
        IF userId = <<>> \/ Cardinality({i \in 1..Len(decoded) : decoded[i] = ":"}) # 2 THEN
            [ok |-> FALSE, status |-> 401, error |-> "Invalid session token",
             cleared |-> TRUE, user |-> NoUser]
        ELSE LET i == FindUser(readUsers(file), userId) IN
            IF i = 0 THEN
                [ok |-> FALSE, status |-> 401, error |-> "User not found",
                 cleared |-> TRUE, user |-> NoUser]
            ELSE
                [ok |-> TRUE, status |-> 0, error |-> "",
                 cleared |-> FALSE, user |-> file[i]]

\* a middleware that gives every rejection the same error body
authenticateOneMessage(cookie, file) ==
    IF ~cookie.present \/ cookie.v = <<>> THEN
        [ok |-> FALSE, status |-> 401, error |-> "Not authenticated",
         cleared |-> FALSE, user |-> NoUser]
    ELSE LET userId == DecodeUserId(cookie.v) IN
        IF userId = <<>> THEN
            [ok |-> FALSE, status |-> 401, error |-> "Not authenticated",
             cleared |-> TRUE, user |-> NoUser]
        ELSE LET i == FindUser(readUsers(file), userId) IN
            IF i = 0 THEN
                [ok |-> FALSE, status |-> 401, error |-> "Not authenticated",
                 cleared |-> TRUE, user |-> NoUser]
            ELSE
                [ok |-> TRUE, status |-> 0, error |-> "",
                 cleared |-> FALSE, user |-> file[i]]

\* a middleware that leaves the cookie of an unknown user in place
authenticateKeepingCookie(cookie, file) ==
    IF ~cookie.present \/ cookie.v = <<>> THEN
        [ok |-> FALSE, status |-> 401, error |-> "Not authenticated",
         cleared |-> FALSE, user |-> NoUser]
    ELSE LET userId == DecodeUserId(cookie.v) IN
        IF userId = <<>> THEN
            [ok |-> FALSE, status |-> 401, error |-> "Invalid session token",
             cleared |-> TRUE, user |-> NoUser]
        ELSE LET i == FindUser(file, userId) IN
            IF i = 0 THEN
                [ok |-> FALSE, status |-> 401, error |-> "User not found",
                 cleared |-> FALSE, user |-> NoUser]
            ELSE
                [ok |-> TRUE, status |-> 0, error |-> "",
                 cleared |-> FALSE, user |-> file[i]]

(***************************************************************************)
(* authenticate: the middleware in front of /api/tasks.                    *)
(***************************************************************************)
authenticate(cookie, file) ==
    IF ~cookie.present \/ cookie.v = <<>> THEN
        [ok |-> FALSE, status |-> 401, error |-> "Not authenticated",
         cleared |-> FALSE, user |-> NoUser]
    ELSE LET userId == DecodeUserId(cookie.v) IN
        IF userId = <<>> THEN
            [ok |-> FALSE, status |-> 401, error |-> "Invalid session token",
             cleared |-> TRUE, user |-> NoUser]
        ELSE LET i == FindUser(readUsers(file), userId) IN
            IF i = 0 THEN
                [ok |-> FALSE, status |-> 401, error |-> "User not found",
                 cleared |-> TRUE, user |-> NoUser]
            ELSE
                [ok |-> TRUE, status |-> 0, error |-> "",
                 cleared |-> FALSE, user |-> file[i]]

(***************************************************************************)
(* The task computations of the route handlers.                            *)
(***************************************************************************)
CompletedCount(subTasks) ==
    Cardinality({i \in 1..Len(subTasks) : subTasks[i].completed})

\* the PUT handler's "Calculate percentage" block
CalculatePercentage(subTasks) ==
    IF Len(subTasks) > 0
    THEN MathRound(FloatMul(FloatDiv(CompletedCount(subTasks), Len(subTasks)), 100))
    ELSE 0

\* a stored subtask read back as the object the normalisation maps over
AsSubBody(st) ==
    [id |-> StrV(st.id), title |-> StrV(st.title),
     description |-> StrV(st.description), completed |-> BoolV(st.completed)]

\* a map that keeps completed only when it is the boolean true
RECURSIVE NormalizeSubTasksStrict(_, _)
NormalizeSubTasksStrict(a, k) ==
    IF a = <<>> THEN <<>>
    ELSE LET st == Head(a)
             fresh == ~Truthy(st.id)
         IN << [id |-> IF fresh THEN UUID(k) ELSE st.id.s,
                title |-> OrElse(OptTrim(st.title), StrV(<<>>)).s,
                description |-> OrElse(OptTrim(st.description), StrV(<<>>)).s,
                completed |-> (st.completed = BoolV(TRUE))] >>
            \o NormalizeSubTasksStrict(Tail(a), IF fresh THEN k + 1 ELSE k)

\* the PUT handler's subTasks.map(...): k identifiers have been handed out
RECURSIVE NormalizeSubTasks(_, _)
NormalizeSubTasks(a, k) ==
    IF a = <<>> THEN <<>>
    ELSE LET st == Head(a)
             fresh == ~Truthy(st.id)
         IN << [id |-> IF fresh THEN UUID(k) ELSE st.id.s,
                title |-> OrElse(OptTrim(st.title), StrV(<<>>)).s,
                description |-> OrElse(OptTrim(st.description), StrV(<<>>)).s,
                completed |-> Truthy(st.completed)] >>
            \o NormalizeSubTasks(Tail(a), IF fresh THEN k + 1 ELSE k)

FreshNeeded(a) == Cardinality({i \in 1..Len(a) : ~Truthy(a[i].id)})

NormalizeThrows(a) ==
    \E i \in 1..Len(a) : TrimThrows(a[i].title) \/ TrimThrows(a[i].description)

\* updates.subTasks || originalTask.subTasks, as the array that is mapped
\* (anything that is not an array gives [])
SubTasksToMap(updates, originalTask) ==
    IF updates.subTasks.t = "array" THEN updates.subTasks.a
    ELSE IF updates.subTasks.t = "undefined"
         THEN [i \in 1..Len(originalTask.subTasks) |-> AsSubBody(originalTask.subTasks[i])]
         ELSE <<>>

Merged(v, original) == IF v.t = "undefined" THEN original ELSE v

\* an updatedTask that takes the id of the body when the body has one
UpdatedTaskBodyId(originalTask, updates, k) ==
    LET subTasks == NormalizeSubTasks(SubTasksToMap(updates, originalTask), k)
    IN [id |-> IF updates.id.t = "string" THEN updates.id.s ELSE originalTask.id,
        title |-> Merged(updates.title, originalTask.title),
        subTasks |-> subTasks,
        percentage |-> CalculatePercentage(subTasks),
        date |-> Merged(updates.date, originalTask.date),
        time |-> Merged(updates.time, originalTask.time),
        icon |-> Merged(updates.icon, originalTask.icon)]

\* the PUT handler's updatedTask
UpdatedTask(originalTask, updates, k) ==
    LET subTasks == NormalizeSubTasks(SubTasksToMap(updates, originalTask), k)
    IN [id |-> originalTask.id,
        title |-> Merged(updates.title, originalTask.title),
        subTasks |-> subTasks,
        percentage |-> CalculatePercentage(subTasks),
        date |-> Merged(updates.date, originalTask.date),
        time |-> Merged(updates.time, originalTask.time),
        icon |-> Merged(updates.icon, originalTask.icon)]

\* [newTask, ...tasks]: the new task in front
PrependTask(tasks, newTask) == <<newTask>> \o tasks

\* [...(users[userIndex].tasks || []), newTask]
AppendTask(tasks, newTask) == tasks \o <<newTask>>

\* a newTask that stores the title as submitted
NewTaskUntrimmed(body, k) ==
    [id |-> UUID(k),
     title |-> StrV(body.title.s),
     subTasks |-> <<>>,
     percentage |-> 0,
     date |-> OrElse(body.date, Today),
     time |-> OrElse(body.time, NowTime),
     icon |-> OrElse(body.icon, Undef)]

\* the POST handler's newTask
NewTask(body, k) ==
    [id |-> UUID(k),
     title |-> StrV(Trim(body.title.s)),
     subTasks |-> <<>>,
     percentage |-> 0,
     date |-> OrElse(body.date, Today),
     time |-> OrElse(body.time, NowTime),
     icon |-> OrElse(body.icon, Undef)]

\* maxAge: rememberMe ? 1 * 24 * 60 * 60 * 1000 : undefined
RememberMeMaxAge == 1 * 24 * 60 * 60 * 1000

(***************************************************************************)
(* Sending a response.  A response records the request it answers, the     *)
(* file as the request found it, and a summary of the response before it.  *)
(***************************************************************************)
Request(kind, cookie, param, body) ==
    [NoResp EXCEPT !.kind = kind, !.cookie = cookie, !.param = param,
                   !.body = body, !.fileBefore = users]

\* the caller's task list in a file, as GET /api/tasks would report it
TasksIn(file, userId) ==
    IF FindUser(file, userId) = 0 THEN <<>>
    ELSE TasksOrEmpty(file[FindUser(file, userId)])

Summary(r) ==
    IF r.kind = "POST" /\ r.status = 201 THEN
        [NoPrev EXCEPT !.kind = r.kind, !.status = r.status, !.caller = r.caller,
                       !.task = r.task, !.before = TasksIn(r.snapshot, r.caller)]
    ELSE IF r.kind = "LOGIN" /\ r.status = 200 THEN
        [NoPrev EXCEPT !.kind = r.kind, !.status = r.status, !.caller = r.caller,
                       !.token = r.token]
    ELSE NoPrev

Respond(s, r) ==
    /\ resps' = [resps EXCEPT ![s] = [r EXCEPT !.prev = Summary(resps[lastSlot]),
                                               !.disk = disk]]
    /\ lastSlot' = s

Rejected(base, a) ==
    [base EXCEPT !.status = a.status, !.error = a.error, !.cleared = a.cleared]

Failed(base, status, error) == [base EXCEPT !.status = status, !.error = error]

\* the request a slot is handling, as the head of its response
Pending(s) ==
    [NoResp EXCEPT !.kind = reqs[s].kind, !.cookie = reqs[s].cookie,
                   !.param = reqs[s].param, !.body = reqs[s].body,
                   !.fileBefore = reqs[s].fileBefore, !.ran = TRUE,
                   !.step = reqs[s].pc,
                   !.caller = reqs[s].user.id,
                   !.snapshot = reqs[s].snapshot, !.out = reqs[s].out,
                   !.goneBefore = (<<reqs[s].user.id, reqs[s].param>> \in deleted)]

Admit(s, kind, cookie, param, body, user, uuids) ==
    /\ nextUUID + uuids <= MaxUUID
    /\ reqs' = [reqs EXCEPT ![s] =
            [IdleSlot EXCEPT !.pc = "read", !.kind = kind, !.cookie = cookie,
                             !.param = param, !.body = body, !.user = user,
                             !.fileBefore = users, !.uuidBase = nextUUID]]
    /\ nextUUID' = nextUUID + uuids

(***************************************************************************)
(* POST /api/login, GET /api/check-session, POST /api/logout.              *)
(***************************************************************************)
\* users.find((u) => u.email === email.trim() && u.password === password)
FindLogin(file, body) ==
    LET hit(i) == /\ file[i].email = Trim(body.email.s)
                  /\ body.password.t = "string"
                  /\ file[i].password = body.password.s
    IN IF \E i \in 1..Len(file) : hit(i)
       THEN CHOOSE i \in 1..Len(file) : hit(i) /\ \A j \in 1..(i - 1) : ~hit(j)
       ELSE 0

LoginResponse(body, origin, ticked, timestamp, random) ==
    LET base == [Request("LOGIN", NoCookie, <<>>, body) EXCEPT
                    !.origin = origin, !.ticked = ticked, !.ran = TRUE]
        file == readUsers(users)
        i == FindLogin(file, body)
    IN IF TrimThrows(body.email) THEN
           \* email?.trim() throws before the try block is entered
           [base EXCEPT !.escaped = TRUE]
       ELSE IF ~Truthy(OptTrim(body.email)) \/ ~Truthy(body.password) THEN
           Failed(base, 400, "Email and password are required")
       ELSE IF i = 0 THEN Failed(base, 401, "Invalid credentials")
       ELSE [base EXCEPT
                !.status = 200, !.caller = file[i].id,
                !.setCookie = TRUE,
                !.token = generateSessionToken(file[i].id, timestamp, random),
                !.hasMaxAge = Truthy(body.rememberMe),
                !.maxAge = IF Truthy(body.rememberMe) THEN RememberMeMaxAge ELSE 0,
                !.hasUser = TRUE, !.user = UserData(file[i])]

\* What becomes of the rejected promise of an async handler depends on the
\* framework and runtime the server is run with: the router passes it to the
\* default error handler, which answers 500; or nobody handles it and the
\* request is never answered; or the unhandled rejection ends the process.
EscapeOutcomes == {"error handler", "unanswered", "exit"}

\* a login request sent to the API directly
Login(s, bodies) ==
    /\ up
    /\ reqs[s].pc = "idle"
    /\ \E body \in bodies, ts \in Timestamps, rnd \in Randoms :
          LET r == LoginResponse(body, "api", FALSE, ts, rnd)
          IN IF r.escaped THEN
                 \E o \in EscapeOutcomes :
                    /\ Respond(s, [r EXCEPT !.status =
                                      IF o = "error handler" THEN 500 ELSE 0])
                    /\ up' = (o # "exit")
             ELSE Respond(s, r) /\ up' = up
    /\ UNCHANGED <<users, reqs, nextUUID, deleted, pctVars, disk, clientVars>>

\* Login.handleSubmit: the body the login form posts
FormBody(formData) ==
    [EmptyBody EXCEPT !.email = StrV(Trim(formData.email)),
                      !.password = StrV(Trim(formData.password))]

\* the login form is submitted and the server handles the request
LoginForm(s, forms) ==
    /\ up
    /\ reqs[s].pc = "idle"
    /\ \E formData \in forms, ts \in Timestamps, rnd \in Randoms :
          /\ Trim(formData.email) # <<>>
          /\ Trim(formData.password) # <<>>
          /\ Respond(s, LoginResponse(FormBody(formData), "form",
                                      formData.rememberMe, ts, rnd))
    /\ UNCHANGED <<users, reqs, nextUUID, deleted, pctVars, envVars, clientVars>>

CheckSessionResponse(cookie) ==
    LET base == [Request("CHECK", cookie, <<>>, EmptyBody) EXCEPT
                    !.ran = TRUE, !.status = 200]
        file == readUsers(users)
        i == FindUser(file, DecodeUserId(cookie.v))
    IN IF ~cookie.present \/ cookie.v = <<>> THEN base
       ELSE IF i = 0 THEN [base EXCEPT !.cleared = TRUE]
       ELSE [base EXCEPT !.caller = file[i].id, !.hasUser = TRUE,
                         !.user = UserData(file[i])]

CheckSession(s, cookies) ==
    /\ up
    /\ reqs[s].pc = "idle"
    /\ \E cookie \in cookies : Respond(s, CheckSessionResponse(cookie))
    /\ UNCHANGED <<users, reqs, nextUUID, deleted, pctVars, envVars, clientVars>>

Logout(s, cookies) ==
    /\ up
    /\ reqs[s].pc = "idle"
    /\ \E cookie \in cookies :
          Respond(s, [Request("LOGOUT", cookie, <<>>, EmptyBody) EXCEPT
                         !.ran = TRUE, !.status = 200, !.cleared = TRUE])
    /\ UNCHANGED <<users, reqs, nextUUID, deleted, pctVars, envVars, clientVars>>

(***************************************************************************)
(* GET /api/tasks.                                                         *)
(***************************************************************************)
\* the request on connection s: the gate, then the handler
GetArrival(s, cookie) ==
    LET base == Request("GET", cookie, <<>>, EmptyBody)
        a == authenticate(cookie, users)
    IN IF ~a.ok THEN Respond(s, Rejected(base, a))
       ELSE Respond(s, [base EXCEPT !.ran = TRUE, !.caller = a.user.id,
                                    !.status = 200,
                                    !.tasks = TasksOrEmpty(a.user)])

GetTasks(s, cookies) ==
    /\ up
    /\ reqs[s].pc = "idle"
    /\ \E cookie \in cookies : GetArrival(s, cookie)
    /\ UNCHANGED <<users, reqs, nextUUID, deleted, pctVars, envVars, clientVars>>

(***************************************************************************)
(* POST /api/tasks: arrival (authenticate, title check), the handler's     *)
(* readUsers, and its writeUsers followed by the response.                 *)
(***************************************************************************)
PostArrival(s, cookie, body) ==
    LET base == Request("POST", cookie, <<>>, body)
        a == authenticate(cookie, users)
        ran == [base EXCEPT !.ran = TRUE, !.caller = a.user.id]
    IN IF ~a.ok THEN
           Respond(s, Rejected(base, a)) /\ UNCHANGED <<reqs, nextUUID>>
       ELSE IF TrimThrows(body.title) THEN
           /\ Respond(s, Failed(ran, 500, "Failed to create task"))
           /\ UNCHANGED <<reqs, nextUUID>>
       ELSE IF ~Truthy(OptTrim(body.title)) THEN
           /\ Respond(s, Failed(ran, 400, "Title is required"))
           /\ UNCHANGED <<reqs, nextUUID>>
       ELSE
           /\ Admit(s, "POST", cookie, <<>>, body, a.user, 1)
           /\ UNCHANGED <<resps, lastSlot>>

PostTasks(s, cookies, bodies) ==
    /\ up
    /\ reqs[s].pc = "idle"
    /\ \E cookie \in cookies, body \in bodies : PostArrival(s, cookie, body)
    /\ UNCHANGED <<users, deleted, pctVars, envVars, clientVars>>

\* a handler that appends the new task to every user's list
PostReadEveryone(s) ==
    /\ up
    /\ reqs[s].pc = "read"
    /\ reqs[s].kind = "POST"
    /\ LET file == readUsers(users)
           newTask == NewTask(reqs[s].body, reqs[s].uuidBase)
       IN /\ reqs' = [reqs EXCEPT ![s] =
                 [@ EXCEPT !.pc = "write", !.snapshot = file,
                           !.hasTask = TRUE, !.task = newTask,
                           !.out = [i \in 1..Len(file) |->
                               [file[i] EXCEPT
                                   !.hasTasks = TRUE,
                                   !.tasks = AppendTask(TasksOrEmpty(file[i]),
                                                        newTask)]]]]
          /\ UNCHANGED <<resps, lastSlot>>
    /\ UNCHANGED <<users, nextUUID, deleted, pctVars, envVars, clientVars>>

PostRead(s) ==
    /\ up
    /\ reqs[s].pc = "read"
    /\ reqs[s].kind = "POST"
    /\ LET file == readUsers(users)
           userIndex == FindUser(file, reqs[s].user.id)
           newTask == NewTask(reqs[s].body, reqs[s].uuidBase)
       IN IF userIndex = 0 THEN
              /\ Respond(s, Failed([Pending(s) EXCEPT !.snapshot = file],
                                   500, "Failed to create task"))
              /\ reqs' = [reqs EXCEPT ![s] = IdleSlot]
          ELSE
              /\ reqs' = [reqs EXCEPT ![s] =
                     [@ EXCEPT !.pc = "write", !.snapshot = file,
                               !.hasTask = TRUE, !.task = newTask,
                               !.out = [file EXCEPT
                                   ![userIndex].hasTasks = TRUE,
                                   ![userIndex].tasks =
                                       AppendTask(TasksOrEmpty(file[userIndex]),
                                                  newTask)]]]
              /\ UNCHANGED <<resps, lastSlot>>
    /\ UNCHANGED <<users, nextUUID, deleted, pctVars, envVars, clientVars>>

PostWrite(s) ==
    /\ up
    /\ reqs[s].pc = "write"
    /\ reqs[s].kind = "POST"
    /\ users' = writeUsers(users, reqs[s].out)
    /\ Respond(s, IF WriteThrows
                  THEN Failed(Pending(s), 500, "Failed to create task")
                  ELSE [Pending(s) EXCEPT !.status = 201, !.hasTask = TRUE,
                                          !.task = reqs[s].task])
    /\ reqs' = [reqs EXCEPT ![s] = IdleSlot]
    /\ UNCHANGED <<nextUUID, deleted, pctVars, envVars, clientVars>>

(***************************************************************************)
(* PUT /api/tasks/:id.                                                     *)
(***************************************************************************)
PutArrival(s, cookie, taskId, updates) ==
    LET base == Request("PUT", cookie, taskId, updates)
        a == authenticate(cookie, users)
    IN IF ~a.ok THEN
           Respond(s, Rejected(base, a)) /\ UNCHANGED <<reqs, nextUUID>>
       ELSE
           /\ Admit(s, "PUT", cookie, taskId, updates, a.user,
                    FreshNeeded(updates.subTasks.a))
           /\ UNCHANGED <<resps, lastSlot>>

PutTasks(s, cookies, params, bodies) ==
    /\ up
    /\ reqs[s].pc = "idle"
    /\ \E cookie \in cookies, taskId \in params, updates \in bodies :
          PutArrival(s, cookie, taskId, updates)
    /\ UNCHANGED <<users, deleted, pctVars, envVars, clientVars>>

PutRead(s) ==
    /\ up
    /\ reqs[s].pc = "read"
    /\ reqs[s].kind = "PUT"
    /\ LET file == readUsers(users)
           userIndex == FindUser(file, reqs[s].user.id)
           taskIndex == FindTask(file[userIndex].tasks, reqs[s].param)
           originalTask == file[userIndex].tasks[taskIndex]
           updatedTask == UpdatedTask(originalTask, reqs[s].body, reqs[s].uuidBase)
           pending == [Pending(s) EXCEPT !.snapshot = file]
           fail(status, error) ==
               /\ Respond(s, Failed(pending, status, error))
               /\ reqs' = [reqs EXCEPT ![s] = IdleSlot]
       IN IF userIndex = 0 \/ ~file[userIndex].hasTasks THEN
              fail(500, "Failed to update task")
          ELSE IF taskIndex = 0 THEN fail(404, "Task not found")
          ELSE IF NormalizeThrows(SubTasksToMap(reqs[s].body, originalTask)) THEN
              fail(500, "Failed to update task")
          ELSE
              /\ reqs' = [reqs EXCEPT ![s] =
                     [@ EXCEPT !.pc = "write", !.snapshot = file,
                               !.hasTask = TRUE, !.task = updatedTask,
                               !.out = [file EXCEPT
                                   ![userIndex].tasks[taskIndex] = updatedTask]]]
              /\ UNCHANGED <<resps, lastSlot>>
    /\ UNCHANGED <<users, nextUUID, deleted, pctVars, envVars, clientVars>>

\* a PUT that applies its update to the file as it is when it writes
PutWriteAtomic(s) ==
    /\ up
    /\ reqs[s].pc = "write"
    /\ reqs[s].kind = "PUT"
    /\ LET file == readUsers(users)
           userIndex == FindUser(file, reqs[s].user.id)
           taskIndex == FindTask(file[userIndex].tasks, reqs[s].param)
       IN users' = IF userIndex = 0 \/ taskIndex = 0 THEN file
                   ELSE [file EXCEPT ![userIndex].tasks[taskIndex] = reqs[s].task]
    /\ Respond(s, [Pending(s) EXCEPT !.status = 200, !.hasTask = TRUE,
                                     !.task = reqs[s].task])
    /\ reqs' = [reqs EXCEPT ![s] = IdleSlot]
    /\ UNCHANGED <<nextUUID, deleted, pctVars, envVars, clientVars>>

PutWrite(s) ==
    /\ up
    /\ reqs[s].pc = "write"
    /\ reqs[s].kind = "PUT"
    /\ users' = writeUsers(users, reqs[s].out)
    /\ Respond(s, IF WriteThrows
                  THEN Failed(Pending(s), 500, "Failed to update task")
                  ELSE [Pending(s) EXCEPT !.status = 200, !.hasTask = TRUE,
                                          !.task = reqs[s].task])
    /\ reqs' = [reqs EXCEPT ![s] = IdleSlot]
    /\ UNCHANGED <<nextUUID, deleted, pctVars, envVars, clientVars>>

(***************************************************************************)
(* DELETE /api/tasks/:id.                                                  *)
(***************************************************************************)
DeleteArrival(s, cookie, taskId) ==
    LET base == Request("DELETE", cookie, taskId, EmptyBody)
        a == authenticate(cookie, users)
    IN IF ~a.ok THEN
           Respond(s, Rejected(base, a)) /\ UNCHANGED <<reqs, nextUUID>>
       ELSE
           /\ Admit(s, "DELETE", cookie, taskId, EmptyBody, a.user, 0)
           /\ UNCHANGED <<resps, lastSlot>>

DeleteTasks(s, cookies, params) ==
    /\ up
    /\ reqs[s].pc = "idle"
    /\ \E cookie \in cookies, taskId \in params : DeleteArrival(s, cookie, taskId)
    /\ UNCHANGED <<users, deleted, pctVars, envVars, clientVars>>

\* a DELETE that empties the caller's list when it does not find the task
DeleteReadClearing(s) ==
    /\ up
    /\ reqs[s].pc = "read"
    /\ reqs[s].kind = "DELETE"
    /\ LET file == readUsers(users)
           userIndex == FindUser(file, reqs[s].user.id)
           taskIndex == FindTask(file[userIndex].tasks, reqs[s].param)
           pending == [Pending(s) EXCEPT !.snapshot = file]
           fail(status, error) ==
               /\ Respond(s, Failed(pending, status, error))
               /\ reqs' = [reqs EXCEPT ![s] = IdleSlot]
       IN IF userIndex = 0 \/ ~file[userIndex].hasTasks THEN
              fail(500, "Failed to delete task") /\ UNCHANGED users
          ELSE IF taskIndex = 0 THEN
              /\ fail(404, "Task not found")
              /\ users' = [file EXCEPT ![userIndex].tasks = <<>>]
          ELSE
              /\ reqs' = [reqs EXCEPT ![s] =
                     [@ EXCEPT !.pc = "write", !.snapshot = file,
                               !.out = [file EXCEPT ![userIndex].tasks =
                                           Splice(file[userIndex].tasks, taskIndex)]]]
              /\ UNCHANGED <<users, resps, lastSlot>>
    /\ UNCHANGED <<nextUUID, deleted, pctVars, envVars, clientVars>>

DeleteRead(s) ==
    /\ up
    /\ reqs[s].pc = "read"
    /\ reqs[s].kind = "DELETE"
    /\ LET file == readUsers(users)
           userIndex == FindUser(file, reqs[s].user.id)
           taskIndex == FindTask(file[userIndex].tasks, reqs[s].param)
           pending == [Pending(s) EXCEPT !.snapshot = file]
           fail(status, error) ==
               /\ Respond(s, Failed(pending, status, error))
               /\ reqs' = [reqs EXCEPT ![s] = IdleSlot]
       IN IF userIndex = 0 \/ ~file[userIndex].hasTasks THEN
              fail(500, "Failed to delete task")
          ELSE IF taskIndex = 0 THEN fail(404, "Task not found")
          ELSE
              /\ reqs' = [reqs EXCEPT ![s] =
                     [@ EXCEPT !.pc = "write", !.snapshot = file,
                               !.out = [file EXCEPT ![userIndex].tasks =
                                           Splice(file[userIndex].tasks, taskIndex)]]]
              /\ UNCHANGED <<resps, lastSlot>>
    /\ UNCHANGED <<users, nextUUID, deleted, pctVars, envVars, clientVars>>

DeleteWrite(s) ==
    /\ up
    /\ reqs[s].pc = "write"
    /\ reqs[s].kind = "DELETE"
    /\ users' = writeUsers(users, reqs[s].out)
    /\ Respond(s, IF WriteThrows
                  THEN Failed(Pending(s), 500, "Failed to delete task")
                  ELSE [Pending(s) EXCEPT !.status = 200])
    /\ deleted' = IF WriteThrows THEN deleted
                  ELSE deleted \cup {<<reqs[s].user.id, reqs[s].param>>}
    /\ reqs' = [reqs EXCEPT ![s] = IdleSlot]
    /\ UNCHANGED <<nextUUID, pctVars, envVars, clientVars>>

(***************************************************************************)
(* The percentage calculation on its own, on arrays of up to MaxTotal      *)
(* subtasks of which the first c are completed.                            *)
(***************************************************************************)
SubTaskArray(n, c) ==
    [i \in 1..n |-> [id |-> <<"s">>, title |-> <<>>, description |-> <<>>,
                     completed |-> (i <= c)]]

RunPercentage ==
    /\ pctOut = -1
    /\ pctOut' = CalculatePercentage(pctIn)
    /\ UNCHANGED <<pctIn, serverVars, envVars, clientVars>>

(***************************************************************************)
(* The requests explored.                                                  *)
(***************************************************************************)
TokenOf(userId) ==
    generateSessionToken(userId, CHOOSE t \in Timestamps : TRUE,
                         CHOOSE r \in Randoms : TRUE)

\* no cookie, an empty cookie, the tokens of the three stored users, a token
\* of an unknown user and a token whose user id field is empty
Cookies ==
    { NoCookie, CookieV(<<>>),
      CookieV(TokenOf(<<"1">>)), CookieV(TokenOf(<<"2">>)),
      CookieV(TokenOf(<<"1", ":", "2">>)),
      CookieV(TokenOf(<<"9">>)), CookieV(TokenOf(<<>>)) }

LoginBodies ==
    { [EmptyBody EXCEPT !.email = StrV(e), !.password = StrV(p), !.rememberMe = r] :
        e \in {<<"a">>, <<" ", "b">>, <<"c">>}, p \in {<<"p">>, <<"q">>, <<"r">>},
        r \in {Undef, BoolV(TRUE), BoolV(FALSE)} }
    \cup { EmptyBody, [EmptyBody EXCEPT !.email = StrV(<<" ">>), !.password = StrV(<<"p">>)] }

LoginForms ==
    [email : {<<"a", " ">>, <<" ">>}, password : {<<"p">>, <<"x">>},
     rememberMe : BOOLEAN]

SubBody(id, title, description, completed) ==
    [id |-> id, title |-> title, description |-> description, completed |-> completed]

PostBodies ==
    { [EmptyBody EXCEPT !.title = t] : t \in {StrV(<<>>), StrV(<<" ">>), NumV(5)} }
    \cup { EmptyBody,
           \* a task as TaskForm.handleSubmit posts it, id, subtasks and
           \* percentage included, here with an untrimmed title
           [EmptyBody EXCEPT !.title = StrV(<<" ", "b", " ">>), !.id = StrV(<<"x">>),
                             !.percentage = NumV(50),
                             !.subTasks = ArrayV(<< SubBody(StrV(<<"s">>), StrV(<<"s">>),
                                                            Undef, BoolV(TRUE)) >>)] }

PutBodies ==
    { [EmptyBody EXCEPT !.percentage = NumV(99)],
      [EmptyBody EXCEPT !.subTasks = ArrayV(<<>>)],
      [EmptyBody EXCEPT !.subTasks = ArrayV(<<
          SubBody(Undef, StrV(<<" ", "s", " ">>), Undef, StrV(<<"y", "e", "s">>)) >>)],
      [EmptyBody EXCEPT !.id = StrV(<<"z", "z">>), !.percentage = NumV(99),
                        !.subTasks = ArrayV(<<
          SubBody(StrV(<<"s", "1">>), StrV(<<"s">>), StrV(<<" ", "d">>), BoolV(TRUE)),
          SubBody(StrV(<<>>), Undef, StrV(<<>>), NumV(0)),
          SubBody(StrV(<<"s", "3">>), Undef, Undef, NumV(1)) >>)],
      [EmptyBody EXCEPT !.subTasks = ArrayV(<<
          SubBody(StrV(<<"s", "1">>), NumV(5), Undef, BoolV(TRUE)) >>)] }

\* the ids in a URL: the seed task, the first id the server hands out, an
\* id no task has
Params == {SeedTask.id, UUID(0), <<"z", "z">>}

(***************************************************************************)
(* The file system: reads and writes of users.json start or stop failing.  *)
(***************************************************************************)
DiskChange ==
    /\ \E d \in [read : BOOLEAN, write : BOOLEAN] : d # disk /\ disk' = d
    /\ UNCHANGED <<serverVars, pctVars, up, clientVars>>

(***************************************************************************)
(* The client: the auth and tasks slices of the store, the session check   *)
(* App runs on mount, the task form and the task list of the home page.    *)
(***************************************************************************)
NoError == "null"

\* the page the router shows ("/" and "/login" both show Login) and the
\* useState values of TaskView; keyList is the filteredSubTasks (as ids) the
\* keydown listener was registered with, moved the subtask last dragged,
\* thrown whether a handler threw, toasted whether toast.error was called
ViewInit ==
    [route |-> "/login", id |-> <<>>, status |-> "all", selectedIndex |-> -1,
     isLoading |-> FALSE, keyList |-> <<>>, moved |-> <<>>, thrown |-> FALSE,
     toasted |-> FALSE]

AuthInitialState ==
    [hasUser |-> FALSE, user |-> NoUser, isLoading |-> FALSE, error |-> NoError]

loginStart(state) == [state EXCEPT !.isLoading = TRUE, !.error = NoError]

loginFailure(state, payload) == [state EXCEPT !.isLoading = FALSE, !.error = payload]

loginSuccess(state, payload) ==
    [state EXCEPT !.hasUser = TRUE, !.user = payload, !.isLoading = FALSE,
                  !.error = NoError]

\* a logout that leaves the loading flag as it is
logoutStillLoading(state) ==
    [state EXCEPT !.hasUser = FALSE, !.user = NoUser, !.error = NoError]

logout(state) ==
    [state EXCEPT !.hasUser = FALSE, !.user = NoUser, !.isLoading = FALSE,
                  !.error = NoError]

TasksInitialState ==
    [tasks |-> <<>>, isLoading |-> FALSE, error |-> NoError, searchQuery |-> <<>>]

setTasks(state, payload) ==
    [state EXCEPT !.tasks = payload, !.isLoading = FALSE, !.error = NoError]

addTask(state, payload) == [state EXCEPT !.tasks = @ \o <<payload>>]

RECURSIVE Without(_, _)
Without(tasks, id) ==
    IF tasks = <<>> THEN <<>>
    ELSE IF Head(tasks).id = id THEN Without(Tail(tasks), id)
    ELSE <<Head(tasks)>> \o Without(Tail(tasks), id)

deleteTask(state, payload) == [state EXCEPT !.tasks = Without(@, payload)]

\* the task with the payload's id is replaced; nothing happens without one
updateTask(state, payload) ==
    LET index == FindTask(state.tasks, payload.id)
    IN IF index # 0 THEN [state EXCEPT !.tasks[index] = payload] ELSE state

setLoading(state, payload) == [state EXCEPT !.isLoading = payload]

setError(state, payload) == [state EXCEPT !.error = payload, !.isLoading = FALSE]

setSearchQuery(state, payload) == [state EXCEPT !.searchQuery = Trim(payload)]

clearSearchQuery(state) == [state EXCEPT !.searchQuery = <<>>]

\* const { loading } = useSelector((state) => state.tasks): the property of
\* that name of the slice, undefined when the slice has none
SelectField(state, name) ==
    IF name \in DOMAIN state THEN BoolV(state[name]) ELSE Undef

ClientKinds == {"CHECK", "POST", "DELETE", "PUT", "SAVE", "GET"}

\* a request the client has sent: the n-th of its kind
Sent(kind, n, id) == [kind |-> kind, n |-> n, id |-> id]

Send(kind, id) ==
    /\ sent[kind] < MaxSent
    /\ flight' = flight \cup {Sent(kind, sent[kind], id)}
    /\ sent' = [sent EXCEPT ![kind] = @ + 1]

Settle(q) == flight' = flight \ {q}

\* ProtectedRoute: the home page is rendered
HomeRendered == auth.hasUser /\ ~auth.isLoading

\* App.checkSession up to the request, run by the mount effect (StrictMode
\* runs a mount effect twice)
StrictModeEffectRuns == 2

CheckSessionStart ==
    /\ sent["CHECK"] < StrictModeEffectRuns
    /\ auth' = loginStart(auth)
    /\ Send("CHECK", <<>>)
    /\ UNCHANGED <<serverVars, pctVars, envVars, taskState, jar, issued, progress, view>>

\* App.checkSession from the response on: the server's answer for the cookie
\* the browser sent, or a request that failed
CheckSessionSettle(q, cookies) ==
    /\ q \in flight
    /\ q.kind = "CHECK"
    /\ \E cookie \in cookies, failed \in BOOLEAN :
          LET response == CheckSessionResponse(cookie)
          IN IF ~failed /\ response.hasUser THEN
                 /\ auth' = loginSuccess(auth, response.user)
                 /\ taskState' = setTasks(taskState, TasksOrEmpty(response.user))
             ELSE
                 /\ auth' = logout(auth)
                 /\ taskState' = setTasks(taskState, <<>>)
    /\ Settle(q)
    /\ UNCHANGED <<serverVars, pctVars, envVars, sent, jar, issued, progress, view>>

\* TaskForm.handleSubmit up to the request; the submit button is
\* disabled={loading || !title.trim()}
TaskFormSubmit(titles) ==
    /\ HomeRendered
    /\ \E title \in titles :
          /\ ~(Truthy(SelectField(taskState, "loading")) \/ Trim(title) = <<>>)
          /\ Trim(title) # <<>>
          /\ Send("POST", Trim(title))
    /\ taskState' = setLoading(taskState, TRUE)
    /\ UNCHANGED <<serverVars, pctVars, envVars, auth, jar, issued, progress, view>>

\* TaskForm.handleSubmit from the response on: the created task, or an error
TaskFormSettle(q) ==
    /\ q \in flight
    /\ q.kind = "POST"
    /\ \E failed \in BOOLEAN :
          LET body == [EmptyBody EXCEPT !.title = StrV(q.id)]
          IN taskState' =
              IF failed
              THEN setLoading(setError(taskState, "Failed to create task"), FALSE)
              ELSE setLoading(addTask(taskState, NewTask(body, q.n)), FALSE)
    /\ Settle(q)
    /\ UNCHANGED <<serverVars, pctVars, envVars, auth, sent, jar, issued, progress, view>>

\* the Delete button of a listed task, and TasksList.handleDelete up to the
\* request; the list is replaced by a loader while loading, by a message
\* while there is an error
DeleteClick ==
    /\ HomeRendered
    /\ ~Truthy(SelectField(taskState, "loading"))
    /\ taskState.error = NoError
    /\ \E i \in 1..Len(taskState.tasks) :
          /\ i <= 10
          /\ Send("DELETE", taskState.tasks[i].id)
    /\ UNCHANGED <<serverVars, pctVars, envVars, auth, taskState, jar, issued, progress, view>>

\* TasksList.handleDelete from the response on
DeleteSettle(q) ==
    /\ q \in flight
    /\ q.kind = "DELETE"
    /\ \E failed \in BOOLEAN :
          taskState' = IF failed THEN taskState ELSE deleteTask(taskState, q.id)
    /\ Settle(q)
    /\ UNCHANGED <<serverVars, pctVars, envVars, auth, sent, jar, issued, progress, view>>

\* Login.handleSubmit together with the server's handling of the request:
\* the browser keeps the cookie the response sets
SignIn(s, forms, timestamps) ==
    /\ up
    /\ reqs[s].pc = "idle"
    /\ \E formData \in forms, ts \in timestamps, rnd \in Randoms :
          /\ Trim(formData.email) # <<>>
          /\ Trim(formData.password) # <<>>
          /\ LET r == LoginResponse(FormBody(formData), "form",
                                    formData.rememberMe, ts, rnd)
             IN /\ Respond(s, r)
                /\ IF r.status = 200 THEN
                       /\ auth' = loginSuccess(loginStart(auth), r.user)
                       /\ taskState' = setTasks(taskState, TasksOrEmpty(r.user))
                       /\ view' = [view EXCEPT !.route = "/home"]
                       /\ jar' = CookieV(r.token)
                       /\ issued' = {e \in issued : e.token # r.token} \cup
                             {[token |-> r.token, user |-> r.caller,
                               signedOut |-> FALSE]}
                   ELSE
                       /\ auth' = loginFailure(loginStart(auth), r.error)
                       /\ UNCHANGED <<taskState, jar, issued, view>>
    /\ UNCHANGED <<users, reqs, nextUUID, deleted, pctVars, envVars, flight, sent,
                   progress>>

\* App.handleSignOut together with the server's POST /api/logout: the
\* response clears the browser's cookie
SignOut(s) ==
    /\ up
    /\ reqs[s].pc = "idle"
    /\ auth.hasUser
    /\ Respond(s, [Request("LOGOUT", jar, <<>>, EmptyBody) EXCEPT
                      !.ran = TRUE, !.status = 200, !.cleared = TRUE])
    /\ jar' = NoCookie
    /\ issued' = {[e EXCEPT !.signedOut = (@ \/ CookieV(e.token) = jar)] : e \in issued}
    /\ auth' = logout(auth)
    /\ taskState' = setTasks(taskState, <<>>)
    /\ view' = [view EXCEPT !.route = "/login"]
    /\ UNCHANGED <<users, reqs, nextUUID, deleted, pctVars, envVars, flight, sent,
                   progress>>

\* the cookies of the tokens set so far, for whoever kept a copy
IssuedCookies == {CookieV(e.token) : e \in issued}

(***************************************************************************)
(* CircularProgress: the colour and the arc of the progress circle.        *)
(***************************************************************************)
NoProgress == [percentage |-> 0, drawn |-> FALSE, colour |-> "", offset |-> 0]

Min(a, b) == IF a < b THEN a ELSE b
Max(a, b) == IF a > b THEN a ELSE b

\* percentage > 50 ? "text-green-600 ..." : "text-red-600 ..."
ProgressColour(percentage) == IF percentage > 50 THEN "green" ELSE "red"

\* strokeDashoffset={100 - Math.min(Math.max(percentage, 0), 100)}
StrokeDashoffset(percentage) == 100 - Min(Max(percentage, 0), 100)

CircularProgress ==
    /\ ~progress.drawn
    /\ progress' = [progress EXCEPT !.drawn = TRUE,
                        !.colour = ProgressColour(progress.percentage),
                        !.offset = StrokeDashoffset(progress.percentage)]
    /\ UNCHANGED <<serverVars, pctVars, envVars, auth, taskState, flight, sent,
                   jar, issued, view>>

(***************************************************************************)
(* The client and the server together.  A handler of the client runs up to *)
(* its request, which arrives on a connection of the server; the server    *)
(* handles it; the handler resumes with the response on that connection.   *)
(* A request in flight keeps what the handler's closure holds: the         *)
(* connection and the task object it built.                                *)
(***************************************************************************)
Calls == sent["POST"] + sent["DELETE"] + sent["PUT"] + sent["SAVE"] + sent["GET"]

Call(kind, op, s, task) ==
    /\ sent[kind] < MaxSent
    /\ Calls < MaxCalls
    /\ flight' = flight \cup {[kind |-> kind, n |-> sent[kind], id |-> task.id,
                               slot |-> s, op |-> op, task |-> task]}
    /\ sent' = [sent EXCEPT ![kind] = @ + 1]

\* connection s carries no request of the client
Free(s) == reqs[s].pc = "idle" /\ \A q \in flight : q.slot # s

\* the server has answered the request q
Answered(q, kind) == q \in flight /\ q.kind = kind /\ reqs[q.slot].pc = "idle"

\* the browser drops the cookie when the response clears it
Browser(r) == IF r.cleared THEN NoCookie ELSE jar

\* JSON.stringify of a task object of the store
TaskBody(task) ==
    [EmptyBody EXCEPT
        !.id = StrV(task.id), !.title = task.title,
        !.percentage = NumV(task.percentage),
        !.date = task.date, !.time = task.time, !.icon = task.icon,
        !.subTasks = ArrayV([i \in 1..Len(task.subTasks) |->
                                AsSubBody(task.subTasks[i])])]

\* uuid4() of the client: the k-th identifier it makes
Uuid4(k) == <<"c", Chars48[k + 1]>>
NextUuid4 == Uuid4(sent["POST"] + sent["SAVE"])

\* TaskView.calculatePercentage
calculatePercentage(subTasks) ==
    IF Len(subTasks) = 0 THEN 0
    ELSE MathRound(FloatMul(FloatDiv(CompletedCount(subTasks), Len(subTasks)), 100))

\* the tasks the home page lists: filteredTasks.slice(0, 10)
Listed == 1..Min(Len(taskState.tasks), 10)

HomeShown == view.route = "/home" /\ HomeRendered

\* TaskForm.handleSubmit up to the request
TaskFormCall(s, titles) ==
    /\ up
    /\ Free(s)
    /\ HomeShown
    /\ \E title \in titles :
          LET newTask == [NoTask EXCEPT !.id = NextUuid4,
                                        !.title = StrV(Trim(title)),
                                        !.date = Today, !.time = NowTime]
          IN /\ ~(Truthy(SelectField(taskState, "loading")) \/ Trim(title) = <<>>)
             /\ Trim(title) # <<>>
             /\ PostArrival(s, jar, TaskBody(newTask))
             /\ Call("POST", "create", s, newTask)
    /\ taskState' = setLoading(taskState, TRUE)
    /\ UNCHANGED <<users, deleted, pctVars, envVars, auth, jar, issued, progress,
                   view>>

\* TaskForm.handleSubmit from the response on
TaskFormReturn(q) ==
    /\ Answered(q, "POST")
    /\ LET r == resps[q.slot]
       IN /\ IF r.status = 201 THEN
                 /\ taskState' = setLoading(addTask(taskState, r.task), FALSE)
                 /\ view' = view
             ELSE
                 /\ taskState' = setLoading(setError(taskState, r.error), FALSE)
                 /\ view' = [view EXCEPT !.toasted = TRUE,
                                !.route = IF r.status = 401 THEN "/login" ELSE @]
          /\ jar' = Browser(r)
    /\ Settle(q)
    /\ UNCHANGED <<serverVars, pctVars, envVars, auth, sent, issued, progress>>

\* the Delete button of a listed task and TasksList.handleDelete up to the
\* request
DeleteCall(s) ==
    /\ up
    /\ Free(s)
    /\ HomeShown
    /\ ~Truthy(SelectField(taskState, "loading"))
    /\ taskState.error = NoError
    /\ \E i \in Listed :
          /\ DeleteArrival(s, jar, taskState.tasks[i].id)
          /\ Call("DELETE", "delete", s, taskState.tasks[i])
    /\ UNCHANGED <<users, deleted, pctVars, envVars, auth, taskState, jar, issued,
                   progress, view>>

\* TasksList.handleDelete from the response on
DeleteReturn(q) ==
    /\ Answered(q, "DELETE")
    /\ LET r == resps[q.slot]
       IN /\ IF r.status = 200 THEN
                 /\ taskState' = deleteTask(taskState, q.id)
                 /\ view' = view
             ELSE
                 /\ taskState' = taskState
                 /\ view' = [view EXCEPT !.toasted = TRUE]
          /\ jar' = Browser(r)
    /\ Settle(q)
    /\ UNCHANGED <<serverVars, pctVars, envVars, auth, sent, issued, progress>>

\* the Edit button of a listed task and EditTask.handleSubmit up to the
\* request; the form's button is disabled while its request is pending
EditTaskCall(s, titles) ==
    /\ up
    /\ Free(s)
    /\ HomeShown
    /\ ~Truthy(SelectField(taskState, "loading"))
    /\ taskState.error = NoError
    /\ \E i \in Listed, title \in titles :
          LET taskList == taskState.tasks[i]
              updatedTask == [taskList EXCEPT !.title = StrV(Trim(title))]
          IN /\ Trim(title) # <<>>
             /\ \A q \in flight : ~(q.kind = "PUT" /\ q.id = taskList.id)
             /\ PutArrival(s, jar, taskList.id, TaskBody(updatedTask))
             /\ Call("PUT", "edit", s, updatedTask)
    /\ UNCHANGED <<users, deleted, pctVars, envVars, auth, taskState, jar, issued,
                   progress, view>>

\* EditTask.handleSubmit from the response on
EditTaskReturn(q) ==
    /\ Answered(q, "PUT")
    /\ LET r == resps[q.slot]
       IN /\ IF r.status = 200 THEN
                 /\ taskState' = updateTask(taskState, q.task)
                 /\ view' = view
             ELSE
                 /\ taskState' = taskState
                 /\ view' = [view EXCEPT !.toasted = TRUE,
                                !.route = IF r.status = 401 THEN "/login" ELSE @]
          /\ jar' = Browser(r)
    /\ Settle(q)
    /\ UNCHANGED <<serverVars, pctVars, envVars, auth, sent, issued, progress>>

(***************************************************************************)
(* TaskView: one task's subtasks, filtered, selected with the keyboard,    *)
(* and saved to the server after every change.                             *)
(***************************************************************************)
\* String.prototype.toLowerCase
ToLowerCase(x) ==
    [i \in 1..Len(x) |->
        IF Occurs(x[i], Chars65) THEN Chars97[IndexIn(x[i], Chars65)] ELSE x[i]]

\* String.prototype.includes
Includes(x, q) ==
    \E i \in 0..(Len(x) - Len(q)) : SubSeq(x, i + 1, i + Len(q)) = q

Statuses == {"all", "to do", "done"}

\* subTasks.filter(...) of filteredSubTasks
RECURSIVE FilterSubTasks(_, _, _)
FilterSubTasks(subTasks, searchQuery, status) ==
    IF subTasks = <<>> THEN <<>>
    ELSE LET subTask == Head(subTasks)
             searchMatch ==
                 IF searchQuery = <<>> THEN TRUE
                 ELSE Includes(ToLowerCase(subTask.title), ToLowerCase(searchQuery))
             statusMatch ==
                 \/ status = "all"
                 \/ status = "to do" /\ ~subTask.completed
                 \/ status = "done" /\ subTask.completed
             rest == FilterSubTasks(Tail(subTasks), searchQuery, status)
         IN IF searchMatch /\ statusMatch THEN <<subTask>> \o rest ELSE rest

\* tasks.find((task) => task.id === id)
HasChosenTask(state, v) == FindTask(state.tasks, v.id) # 0
ChosenTask(state, v) == state.tasks[FindTask(state.tasks, v.id)]

filteredSubTasks(state, v) ==
    IF HasChosenTask(state, v)
    THEN FilterSubTasks(ChosenTask(state, v).subTasks, state.searchQuery, v.status)
    ELSE <<>>

IdsOf(subTasks) == [i \in 1..Len(subTasks) |-> subTasks[i].id]

\* the keydown effect has [chosenTask, selectedIndex] as dependencies: the
\* listener is registered anew, with the list of that render, only when one
\* of the two changes
Rendered(state, v) ==
    IF \/ v.selectedIndex # view.selectedIndex
       \/ HasChosenTask(state, v) # HasChosenTask(taskState, view)
       \/ HasChosenTask(state, v) /\ ChosenTask(state, v) # ChosenTask(taskState, view)
    THEN [v EXCEPT !.keyList = IdsOf(filteredSubTasks(state, v))]
    ELSE v

\* ProtectedRoute shows TaskView, which is not showing its loader
TaskViewMounted == view.route = "/task" /\ auth.hasUser /\ ~auth.isLoading

TaskViewShown ==
    TaskViewMounted /\ ~view.isLoading /\ HasChosenTask(taskState, view)

\* a new TaskView for the task of the URL
Mounted(id) ==
    LET v == [ViewInit EXCEPT !.route = "/task", !.id = id,
                              !.toasted = view.toasted]
    IN [v EXCEPT !.keyList = IdsOf(filteredSubTasks(taskState, v))]

\* the Link of a listed task
OpenTask ==
    /\ HomeShown
    /\ ~Truthy(SelectField(taskState, "loading"))
    /\ taskState.error = NoError
    /\ \E i \in Listed : view' = Mounted(taskState.tasks[i].id)
    /\ UNCHANGED <<serverVars, pctVars, envVars, auth, taskState, flight, sent,
                   jar, issued, progress>>

\* the Back to Home button; the cleanup of TaskView's effect clears the
\* search
BackToHome ==
    /\ TaskViewShown
    /\ view' = [ViewInit EXCEPT !.route = "/home", !.toasted = view.toasted]
    /\ taskState' = clearSearchQuery(taskState)
    /\ UNCHANGED <<serverVars, pctVars, envVars, auth, flight, sent, jar, issued,
                   progress>>

\* TaskView.saveTask up to the request, for the subtasks op leaves; v is the
\* view with what the event's handlers set besides
saveTask(s, op, updatedSubTasks, v) ==
    /\ up
    /\ Free(s)
    /\ HasChosenTask(taskState, view)
    /\ LET chosenTask == ChosenTask(taskState, view)
           updatedTask ==
               [chosenTask EXCEPT !.subTasks = updatedSubTasks,
                                  !.percentage = calculatePercentage(updatedSubTasks)]
       IN /\ PutArrival(s, jar, view.id, TaskBody(updatedTask))
          /\ Call("SAVE", op, s, updatedTask)
    /\ view' = Rendered(taskState, [v EXCEPT !.isLoading = TRUE])
    /\ UNCHANGED <<users, deleted, pctVars, envVars, auth, taskState, jar, issued,
                   progress>>

\* chosenTask.subTasks.map((st) => st.id === subTaskId ? {...st, completed: !st.completed} : st)
Toggled(subTasks, subTaskId) ==
    [i \in 1..Len(subTasks) |->
        IF subTasks[i].id = subTaskId
        THEN [subTasks[i] EXCEPT !.completed = ~@] ELSE subTasks[i]]

\* chosenTask.subTasks.filter((st) => st.id !== subTaskId)
RECURSIVE Removed(_, _)
Removed(subTasks, subTaskId) ==
    IF subTasks = <<>> THEN <<>>
    ELSE IF Head(subTasks).id = subTaskId THEN Removed(Tail(subTasks), subTaskId)
    ELSE <<Head(subTasks)>> \o Removed(Tail(subTasks), subTaskId)

\* SubTaskForm.handleSubmit and TaskView.handleAddSubTask
AddSubTask(s, forms) ==
    /\ TaskViewShown
    /\ \E form \in forms :
          /\ Trim(form.title) # <<>>
          /\ Trim(form.description) # <<>>
          /\ saveTask(s, "add",
                 ChosenTask(taskState, view).subTasks \o
                 << [id |-> NextUuid4, title |-> Trim(form.title),
                     description |-> Trim(form.description),
                     completed |-> FALSE] >>,
                 view)

\* onClick={() => setSelectedIndex(index)} of the list item, which a click
\* on anything inside the item reaches as well
Selected(v, index) == [v EXCEPT !.selectedIndex = index]

\* the checkbox of a displayed subtask
ToggleComplete(s) ==
    /\ TaskViewShown
    /\ \E k \in 1..Len(filteredSubTasks(taskState, view)) :
          saveTask(s, "toggle",
              Toggled(ChosenTask(taskState, view).subTasks,
                      filteredSubTasks(taskState, view)[k].id),
              Selected(view, k - 1))

\* the Delete button of a displayed subtask
DeleteSubTask(s) ==
    /\ TaskViewShown
    /\ \E k \in 1..Len(filteredSubTasks(taskState, view)) :
          saveTask(s, "remove",
              Removed(ChosenTask(taskState, view).subTasks,
                      filteredSubTasks(taskState, view)[k].id),
              Selected(view, k - 1))

\* a click on a displayed subtask
ClickSubTask ==
    /\ TaskViewShown
    /\ \E k \in 1..Len(filteredSubTasks(taskState, view)) :
          view' = Rendered(taskState, Selected(view, k - 1))
    /\ UNCHANGED <<serverVars, pctVars, envVars, auth, taskState, flight, sent,
                   jar, issued, progress>>

\* FilterTask.handleStatusChange
StatusChange ==
    /\ TaskViewShown
    /\ \E status \in Statuses :
          /\ status # view.status
          /\ view' = Rendered(taskState, [view EXCEPT !.status = status])
    /\ UNCHANGED <<serverVars, pctVars, envVars, auth, taskState, flight, sent,
                   jar, issued, progress>>

\* FilterTask.handleSearchChange
SearchChange(texts) ==
    /\ TaskViewShown
    /\ \E text \in texts :
          /\ setSearchQuery(taskState, text) # taskState
          /\ taskState' = setSearchQuery(taskState, text)
    /\ view' = Rendered(taskState', view)
    /\ UNCHANGED <<serverVars, pctVars, envVars, auth, flight, sent, jar, issued,
                   progress>>

\* handleKeyDown reaches its second if
KeysActive ==
    /\ TaskViewMounted
    /\ HasChosenTask(taskState, view)
    /\ view.selectedIndex >= 0
    /\ Len(view.keyList) > 0

\* filteredSubTasks[selectedIndex] of the listener is undefined
NoCurrentSubTask == view.selectedIndex >= Len(view.keyList)

\* ArrowUp and ArrowDown
ArrowKey ==
    /\ KeysActive
    /\ \/ /\ view.selectedIndex > 0
          /\ view' = Rendered(taskState, Selected(view, view.selectedIndex - 1))
       \/ /\ view.selectedIndex < Len(view.keyList) - 1
          /\ view' = Rendered(taskState, Selected(view, view.selectedIndex + 1))
    /\ UNCHANGED <<serverVars, pctVars, envVars, auth, taskState, flight, sent,
                   jar, issued, progress>>

\* Space and Delete on the selected subtask; reading the id of an undefined
\* currentSubTask throws
ShortcutKey(s) ==
    /\ KeysActive
    /\ IF NoCurrentSubTask THEN
           /\ view' = [view EXCEPT !.thrown = TRUE]
           /\ UNCHANGED <<serverVars, pctVars, envVars, auth, taskState, flight,
                          sent, jar, issued, progress>>
       ELSE
           LET subTaskId == view.keyList[view.selectedIndex + 1]
               subTasks == ChosenTask(taskState, view).subTasks
           IN \/ saveTask(s, "toggle", Toggled(subTasks, subTaskId), view)
              \/ saveTask(s, "remove", Removed(subTasks, subTaskId), view)

\* const [moved] = reordered.splice(source, 1); reordered.splice(destination, 0, moved)
Reordered(subTasks, source, destination) ==
    LET moved == subTasks[source + 1]
        rest == SubSeq(subTasks, 1, source) \o SubSeq(subTasks, source + 2, Len(subTasks))
    IN SubSeq(rest, 1, destination) \o <<moved>> \o
       SubSeq(rest, destination + 1, Len(rest))

\* onDragEnd: a displayed subtask is dropped at a position of the displayed
\* list; source and destination are indexes of that list
DragEnd(s) ==
    /\ TaskViewShown
    /\ LET shown == filteredSubTasks(taskState, view)
       IN \E source \in 0..(Len(shown) - 1), destination \in 0..(Len(shown) - 1) :
             saveTask(s, "reorder",
                 Reordered(ChosenTask(taskState, view).subTasks, source, destination),
                 [view EXCEPT !.moved = shown[source + 1].id])

\* TaskView.saveTask from the response on, and what its caller does after
\* it: deleteSubTask moves the selection.  Replacing a task of the store
\* re-runs TaskView's first effect, whose cleanup clears the search.
SaveTaskReturn(q) ==
    /\ Answered(q, "SAVE")
    /\ LET r == resps[q.slot]
           ok == r.status = 200
           replaced == ok /\ FindTask(taskState.tasks, q.id) # 0
           store == IF ok THEN updateTask(taskState, q.task) ELSE taskState
           here == view.route = "/task" /\ view.id = q.id
           v == [view EXCEPT
                    !.toasted = @ \/ ~ok,
                    !.isLoading = IF here THEN FALSE ELSE @,
                    !.selectedIndex =
                        IF here /\ q.op = "remove"
                        THEN (IF @ > 0 THEN @ - 1 ELSE -1) ELSE @]
       IN /\ taskState' = IF replaced /\ view.route = "/task"
                          THEN clearSearchQuery(store) ELSE store
          /\ view' = Rendered(taskState', v)
          /\ jar' = Browser(r)
    /\ Settle(q)
    /\ UNCHANGED <<serverVars, pctVars, envVars, auth, sent, issued, progress>>

\* response.data.tasks.forEach((task) => dispatch(updateTask(task)))
RECURSIVE UpdateEach(_, _)
UpdateEach(state, tasks) ==
    IF tasks = <<>> THEN state
    ELSE UpdateEach(updateTask(state, Head(tasks)), Tail(tasks))

\* /task/:id reached by its address, through the browser's history or a
\* link, in the running application: TaskView is mounted and its first
\* effect runs, which fetches the tasks when the store has none
OpenByUrl(s, ids) ==
    /\ auth.hasUser
    /\ ~auth.isLoading
    /\ view.route # "/task"
    /\ \E id \in ids :
          IF Len(taskState.tasks) = 0 /\ ~Truthy(SelectField(taskState, "loading"))
          THEN /\ up
               /\ Free(s)
               /\ GetArrival(s, jar)
               /\ Call("GET", "fetch", s, [NoTask EXCEPT !.id = id])
               /\ view' = [Mounted(id) EXCEPT !.isLoading = TRUE]
          ELSE /\ view' = Mounted(id)
               /\ UNCHANGED <<resps, lastSlot, flight, sent>>
    /\ UNCHANGED <<users, reqs, nextUUID, deleted, pctVars, envVars, auth, taskState,
                   jar, issued, progress>>

\* fetchTasks from the response on
FetchTasksReturn(q) ==
    /\ Answered(q, "GET")
    /\ LET r == resps[q.slot]
           ok == r.status = 200
           store == IF ok THEN UpdateEach(taskState, r.tasks) ELSE taskState
           here == view.route = "/task" /\ view.id = q.id
           v == [view EXCEPT !.toasted = @ \/ ~ok,
                             !.isLoading = IF here THEN FALSE ELSE @]
       IN /\ taskState' = IF store.tasks # taskState.tasks /\ view.route = "/task"
                          THEN clearSearchQuery(store) ELSE store
          /\ view' = Rendered(taskState', v)
          /\ jar' = Browser(r)
    /\ Settle(q)
    /\ UNCHANGED <<serverVars, pctVars, envVars, auth, sent, issued, progress>>

\* the browser's session cookie goes: its maxAge passes, or another tab of
\* the same browser signs out and the response clears it
CookieLost ==
    /\ jar # NoCookie
    /\ jar' = NoCookie
    /\ UNCHANGED <<serverVars, pctVars, envVars, auth, taskState, flight, sent,
                   issued, progress, view>>

(***************************************************************************)
(* Specifications.                                                         *)
(***************************************************************************)
\* the file system works and the server has been started
EnvInit == disk = DiskOk /\ up = TRUE

\* the store as configureStore builds it, nothing sent yet
ClientInit ==
    /\ auth = AuthInitialState
    /\ taskState = TasksInitialState
    /\ flight = {}
    /\ sent = [k \in ClientKinds |-> 0]
    /\ jar = NoCookie
    /\ issued = {}
    /\ progress = NoProgress
    /\ view = ViewInit

Init ==
    /\ users = SeedUsers
    /\ reqs = [s \in Slots |-> IdleSlot]
    /\ resps = [s \in Slots |-> NoResp]
    /\ lastSlot = 1
    /\ nextUUID = 0
    /\ deleted = {}
    /\ pctIn = <<>>
    /\ pctOut = -1
    /\ EnvInit
    /\ ClientInit

\* The task repository, one request at a time: a single connection, each
\* request answered before the next arrives, every caller holding a token.
Callers == {CookieV(TokenOf(<<"1">>)), CookieV(TokenOf(<<"2">>))}

Next ==
    \E s \in {1} :
        \/ GetTasks(s, Callers)
        \/ PostTasks(s, Callers, PostBodies)
        \/ PostRead(s)
        \/ PostWrite(s)
        \/ PutTasks(s, Callers, Params, PutBodies)
        \/ PutRead(s)
        \/ PutWrite(s)
        \/ DeleteTasks(s, Callers, Params)
        \/ DeleteRead(s)
        \/ DeleteWrite(s)

Spec == Init /\ [][Next]_vars

\* Titles through create and update, one request at a time: updates that
\* carry a title, among them a blank one and a padded one.
TitlePutBodies ==
    { [EmptyBody EXCEPT !.title = StrV(<<" ">>)],
      [EmptyBody EXCEPT !.title = StrV(<<" ", "b", " ">>)],
      [EmptyBody EXCEPT !.title = StrV(<<"c">>)] }

TitleParams == {SeedTask.id, UUID(0)}

NextTitle ==
    \E s \in {1} :
        \/ PostTasks(s, Callers, PostBodies)
        \/ PostRead(s)
        \/ PostWrite(s)
        \/ PutTasks(s, Callers, TitleParams, TitlePutBodies)
        \/ PutRead(s)
        \/ PutWrite(s)

SpecTitle == Init /\ [][NextTitle]_vars

\* One browser tab: the session check on mount, then the task form and the
\* task list of the home page.  A request the tab has sent settles with the
\* server's answer or with a failure.
FormTitles == {<<" ", "n">>, <<" ">>}

\* the cookie of the tab's browser: none, a user's, a token of no user
ClientCookies == {NoCookie, CookieV(TokenOf(<<"1">>)), CookieV(TokenOf(<<"9">>))}

NextClient ==
    \/ CheckSessionStart
    \/ \E q \in flight : CheckSessionSettle(q, ClientCookies)
    \/ TaskFormSubmit(FormTitles)
    \/ \E q \in flight : TaskFormSettle(q)
    \/ DeleteClick
    \/ \E q \in flight : DeleteSettle(q)

SpecClient == Init /\ [][NextClient]_vars

\* axios settles every request: with the response, or with an error when the
\* connection fails
SpecClientFair ==
    SpecClient /\ WF_vars(\E q \in flight : CheckSessionSettle(q, ClientCookies))

\* The progress circle drawn for a percentage, the range 0..100 and a few
\* values beyond each end.
Percentages == (0 - Overshoot)..(100 + Overshoot)

InitProgress ==
    /\ users = SeedUsers
    /\ reqs = [s \in Slots |-> IdleSlot]
    /\ resps = [s \in Slots |-> NoResp]
    /\ lastSlot = 1
    /\ nextUUID = 0
    /\ deleted = {}
    /\ pctIn = <<>>
    /\ pctOut = -1
    /\ EnvInit
    /\ auth = AuthInitialState
    /\ taskState = TasksInitialState
    /\ flight = {}
    /\ sent = [k \in ClientKinds |-> 0]
    /\ jar = NoCookie
    /\ issued = {}
    /\ view = ViewInit
    /\ \E p \in Percentages : progress = [NoProgress EXCEPT !.percentage = p]

NextProgress == CircularProgress

SpecProgress == InitProgress /\ [][NextProgress]_vars

\* One signed-in client and the server, over two connections: the home
\* page's form, list and edit form, and the task view's subtask changes.
\* Login is shown at "/login" and, by ProtectedRoute, wherever there is no
\* user.
LoginShown == view.route = "/login" \/ (~auth.hasUser /\ ~auth.isLoading)

MirrorForms == {[email |-> <<"a">>, password |-> <<"p">>, rememberMe |-> FALSE]}
MirrorTitles == {<<" ", "n">>}
EditTitles == {<<"e", " ">>}
SubTaskForms == {[title |-> <<"s", " ">>, description |-> <<" ", "d">>]}

ServerStep(s) ==
    \/ PostRead(s)
    \/ PostWrite(s)
    \/ PutRead(s)
    \/ PutWrite(s)
    \/ DeleteRead(s)
    \/ DeleteWrite(s)

NextMirror ==
    \/ \E s \in Slots :
          \/ LoginShown /\ Free(s) /\ SignIn(s, MirrorForms, Timestamps)
          \/ TaskFormCall(s, MirrorTitles)
          \/ DeleteCall(s)
          \/ EditTaskCall(s, EditTitles)
          \/ AddSubTask(s, SubTaskForms)
          \/ ToggleComplete(s)
          \/ DeleteSubTask(s)
          \/ ServerStep(s)
    \/ OpenTask
    \/ BackToHome
    \/ \E q \in flight :
          \/ TaskFormReturn(q)
          \/ DeleteReturn(q)
          \/ EditTaskReturn(q)
          \/ SaveTaskReturn(q)

SpecMirror == Init /\ [][NextMirror]_vars

\* The same client when its cookie can go at any moment, the task view also
\* reached by its address.
UrlIds == {SeedTask.id}

\* the user with two tasks and the user with none
ExpiryForms ==
    { [email |-> <<"a">>, password |-> <<"p">>, rememberMe |-> FALSE],
      [email |-> <<"b">>, password |-> <<"q">>, rememberMe |-> TRUE] }

NextExpiry ==
    \/ \E s \in Slots :
          \/ LoginShown /\ Free(s) /\ SignIn(s, ExpiryForms, Timestamps)
          \/ TaskFormCall(s, MirrorTitles)
          \/ DeleteCall(s)
          \/ EditTaskCall(s, EditTitles)
          \/ AddSubTask(s, SubTaskForms)
          \/ ToggleComplete(s)
          \/ DeleteSubTask(s)
          \/ OpenByUrl(s, UrlIds)
          \/ ServerStep(s)
    \/ OpenTask
    \/ BackToHome
    \/ CookieLost
    \/ \E q \in flight :
          \/ TaskFormReturn(q)
          \/ DeleteReturn(q)
          \/ EditTaskReturn(q)
          \/ SaveTaskReturn(q)
          \/ FetchTasksReturn(q)

SpecExpiry == Init /\ [][NextExpiry]_vars

\* The task view reached by its address while the signed-in user also works
\* elsewhere: another browser of the same user creates tasks.
FetchIds == {SeedTask.id, UUID(0)}
ElsewhereBodies == {[EmptyBody EXCEPT !.title = StrV(<<"c">>)]}

Elsewhere(s) ==
    /\ auth.hasUser
    /\ Free(s)
    /\ PostTasks(s, {CookieV(TokenOf(auth.user.id))}, ElsewhereBodies)

NextFetch ==
    \/ \E s \in Slots :
          \/ LoginShown /\ Free(s) /\ SignIn(s, ExpiryForms, Timestamps)
          \/ Elsewhere(s)
          \/ PostRead(s)
          \/ PostWrite(s)
          \/ OpenByUrl(s, FetchIds)
          \/ DeleteCall(s)
          \/ DeleteRead(s)
          \/ DeleteWrite(s)
    \/ OpenTask
    \/ BackToHome
    \/ \E q \in flight :
          \/ FetchTasksReturn(q)
          \/ DeleteReturn(q)

SpecFetch == Init /\ [][NextFetch]_vars

\* The task view of a task with three subtasks, opened by the user who owns
\* it: clicks, keys, the status filter, the search box, drags, and the saves
\* they cause.
ViewSubTasks(done) ==
    << [id |-> <<"s", "1">>, title |-> <<"A">>, description |-> <<"d">>,
        completed |-> done[1]],
       [id |-> <<"s", "2">>, title |-> <<"b">>, description |-> <<"d">>,
        completed |-> done[2]],
       [id |-> <<"s", "3">>, title |-> <<"a", "b">>, description |-> <<"d">>,
        completed |-> done[3]] >>

ViewTask(done) ==
    [SeedTask EXCEPT !.subTasks = ViewSubTasks(done),
                     !.percentage = calculatePercentage(ViewSubTasks(done))]

ViewSearches == {<<>>, <<"B", " ">>}

InitView ==
    /\ \E done \in [1..3 -> BOOLEAN] :
          users = [SeedUsers EXCEPT ![1].tasks[1] = ViewTask(done)]
    /\ reqs = [s \in Slots |-> IdleSlot]
    /\ resps = [s \in Slots |-> NoResp]
    /\ lastSlot = 1
    /\ nextUUID = 0
    /\ deleted = {}
    /\ pctIn = <<>>
    /\ pctOut = -1
    /\ EnvInit
    /\ auth = loginSuccess(AuthInitialState, UserData(users[1]))
    /\ taskState = setTasks(TasksInitialState, users[1].tasks)
    /\ flight = {}
    /\ sent = [k \in ClientKinds |-> 0]
    /\ jar = CookieV(TokenOf(users[1].id))
    /\ issued = {[token |-> TokenOf(users[1].id), user |-> users[1].id,
                  signedOut |-> FALSE]}
    /\ progress = NoProgress
    /\ view = [ViewInit EXCEPT !.route = "/task", !.id = SeedTask.id,
                               !.keyList = IdsOf(users[1].tasks[1].subTasks)]

\* dragging under the filters
NextDrag ==
    \/ \E s \in {1} :
          \/ DragEnd(s)
          \/ PutRead(s)
          \/ PutWrite(s)
    \/ StatusChange
    \/ SearchChange(ViewSearches)
    \/ \E q \in flight : SaveTaskReturn(q)

SpecDrag == InitView /\ [][NextDrag]_vars

\* selecting with the mouse and the keyboard under the filters
NextView ==
    \/ \E s \in {1} :
          \/ DeleteSubTask(s)
          \/ ShortcutKey(s)
          \/ PutRead(s)
          \/ PutWrite(s)
    \/ ClickSubTask
    \/ ArrowKey
    \/ StatusChange
    \/ SearchChange(ViewSearches)
    \/ \E q \in flight : SaveTaskReturn(q)

SpecView == InitView /\ [][NextView]_vars

\* Every endpoint, one request at a time, with requests that are refused:
\* no cookie and the cookie of no user, a blank title, the id of no task.
WriteCookies == {NoCookie, CookieV(TokenOf(<<"1">>)), CookieV(TokenOf(<<"9">>))}
WritePostBodies ==
    {[EmptyBody EXCEPT !.title = StrV(<<" ">>)], [EmptyBody EXCEPT !.title = StrV(<<"c">>)]}
WriteParams == {SeedTask.id, <<"z", "z">>}
WriteLogins ==
    { [EmptyBody EXCEPT !.email = StrV(<<"a">>), !.password = StrV(p)] :
        p \in {<<"p">>, <<"x">>} }
WritePutBodies == {[EmptyBody EXCEPT !.title = StrV(<<"z">>)]}

NextWrites ==
    \E s \in {1} :
        \/ Login(s, WriteLogins)
        \/ CheckSession(s, WriteCookies)
        \/ Logout(s, WriteCookies)
        \/ GetTasks(s, WriteCookies)
        \/ PostTasks(s, WriteCookies, WritePostBodies)
        \/ PostRead(s)
        \/ PostWrite(s)
        \/ PutTasks(s, WriteCookies, WriteParams, WritePutBodies)
        \/ PutRead(s)
        \/ PutWrite(s)
        \/ DeleteTasks(s, WriteCookies, WriteParams)
        \/ DeleteRead(s)
        \/ DeleteWrite(s)

SpecWrites == Init /\ [][NextWrites]_vars

\* The session check on one connection and the gate on the other, over the
\* seed file and over a file in which one user's id is the empty string.
\* The server does not create users: the file's records are whatever was
\* put there.
Stores ==
    { SeedUsers,
      SeedUsers \o << [id |-> <<>>, email |-> <<"e">>, password |-> <<"s">>,
                       hasTasks |-> TRUE, tasks |-> <<SeedTask>>] >> }

InitStore ==
    /\ users \in Stores
    /\ reqs = [s \in Slots |-> IdleSlot]
    /\ resps = [s \in Slots |-> NoResp]
    /\ lastSlot = 1
    /\ nextUUID = 0
    /\ deleted = {}
    /\ pctIn = <<>>
    /\ pctOut = -1
    /\ EnvInit
    /\ ClientInit

NextStore ==
    \/ CheckSession(1, Cookies)
    \/ GetTasks(2, Cookies)

SpecStore == InitStore /\ [][NextStore]_vars

\* The home page of a client that signs in and out while its requests are
\* on their way.
NextSignOut ==
    \/ \E s \in Slots :
          \/ LoginShown /\ Free(s) /\ SignIn(s, MirrorForms, Timestamps)
          \/ Free(s) /\ SignOut(s)
          \/ TaskFormCall(s, MirrorTitles)
          \/ DeleteCall(s)
          \/ EditTaskCall(s, EditTitles)
          \/ ServerStep(s)
    \/ \E q \in flight :
          \/ TaskFormReturn(q)
          \/ DeleteReturn(q)
          \/ EditTaskReturn(q)

SpecSignOut == Init /\ [][NextSignOut]_vars

\* Sessions and the gate in front of the task routes, one request at a time:
\* every cookie, one body per task route.
AuthPostBodies == {[EmptyBody EXCEPT !.title = StrV(<<"c">>)]}
AuthPutBodies == {[EmptyBody EXCEPT !.title = StrV(<<"z">>)]}
AuthParams == {SeedTask.id}

NextAuth ==
    \E s \in {1} :
        \/ Login(s, LoginBodies)
        \/ LoginForm(s, LoginForms)
        \/ CheckSession(s, Cookies)
        \/ Logout(s, Cookies)
        \/ GetTasks(s, Cookies)
        \/ PostTasks(s, Cookies, AuthPostBodies)
        \/ PostRead(s)
        \/ PostWrite(s)
        \/ PutTasks(s, Cookies, AuthParams, AuthPutBodies)
        \/ PutRead(s)
        \/ PutWrite(s)
        \/ DeleteTasks(s, Cookies, AuthParams)
        \/ DeleteRead(s)
        \/ DeleteWrite(s)

SpecAuth == Init /\ [][NextAuth]_vars

\* Two connections whose requests overlap: each handler's readUsers and
\* writeUsers are separate steps, and the other connection may step between.
\* Every mutation explored here draws one identifier, so MaxUUID bounds the
\* number of mutations of a behaviour.
ConcPostBodies == {[EmptyBody EXCEPT !.title = StrV(<<"c">>)]}
ConcPutBodies ==
    {[EmptyBody EXCEPT !.subTasks = ArrayV(<<
        SubBody(Undef, StrV(<<"s">>), Undef, BoolV(TRUE)) >>)]}
ConcParams == {SeedTask.id, SeedTask2.id}

NextConc ==
    \E s \in Slots :
        \/ PostTasks(s, Callers, ConcPostBodies)
        \/ PostRead(s)
        \/ PostWrite(s)
        \/ PutTasks(s, Callers, ConcParams, ConcPutBodies)
        \/ PutRead(s)
        \/ PutWrite(s)

SpecConc == Init /\ [][NextConc]_vars

\* the percentage calculation alone, on every array of up to MaxTotal subtasks
InitPct ==
    /\ users = SeedUsers
    /\ reqs = [s \in Slots |-> IdleSlot]
    /\ resps = [s \in Slots |-> NoResp]
    /\ lastSlot = 1
    /\ nextUUID = 0
    /\ deleted = {}
    /\ \E n \in 0..MaxTotal : \E c \in 0..n : pctIn = SubTaskArray(n, c)
    /\ pctOut = -1
    /\ EnvInit
    /\ ClientInit

NextPct == RunPercentage

SpecPct == InitPct /\ [][NextPct]_vars

\* The server with a file system that can fail at any moment, also between
\* the steps of a request, and with a login body of any JSON type; one
\* connection.
FailLoginBodies ==
    { [EmptyBody EXCEPT !.email = StrV(<<"a">>), !.password = StrV(<<"p">>)],
      [EmptyBody EXCEPT !.email = NumV(5), !.password = StrV(<<"p">>)] }
FailCookies == {NoCookie, CookieV(TokenOf(<<"1">>))}

NextFail ==
    \/ DiskChange
    \/ \E s \in {1} :
        \/ Login(s, FailLoginBodies)
        \/ CheckSession(s, FailCookies)
        \/ Logout(s, FailCookies)
        \/ GetTasks(s, FailCookies)
        \/ PostTasks(s, FailCookies, AuthPostBodies)
        \/ PostRead(s)
        \/ PostWrite(s)
        \/ PutTasks(s, FailCookies, AuthParams, AuthPutBodies)
        \/ PutRead(s)
        \/ PutWrite(s)
        \/ DeleteTasks(s, FailCookies, AuthParams)
        \/ DeleteRead(s)
        \/ DeleteWrite(s)

SpecFail == Init /\ [][NextFail]_vars

\* Sessions as the browser lives them: signing in through the form, signing
\* out, and requests that present a token some login has set.
SessionForms ==
    [email : {<<"a">>, <<"c">>}, password : {<<"p">>, <<"r">>},
     rememberMe : {FALSE}]
SessionTimestamps == {<<"7">>, <<"8">>}

NextSession ==
    \E s \in {1} :
        \/ SignIn(s, SessionForms, SessionTimestamps)
        \/ SignOut(s)
        \/ GetTasks(s, IssuedCookies \cup {jar})
        \/ CheckSession(s, IssuedCookies \cup {jar})

SpecSession == Init /\ [][NextSession]_vars

\* The gate on two connections, with cookies that share their first field
\* and differ in the rest: tokens as the server makes them, with another
\* timestamp and random part, with no further field, with four further
\* fields; and a store from which a caller deletes a task in between.
Forged(text) == CookieV(Base64Encode(Bytes(text)))

GateCookies ==
    { CookieV(TokenOf(<<"1">>)),
      CookieV(generateSessionToken(<<"1">>, <<"8">>, <<"b">>)),
      Forged(<<"1">>),
      Forged(<<"1", ":", "x", ":", "y", ":", "z", ":", "w">>),
      CookieV(TokenOf(<<"9">>)),
      Forged(<<"9">>),
      CookieV(TokenOf(<<>>)),
      Forged(<<":">>) }

NextGate ==
    \E s \in Slots :
        \/ GetTasks(s, GateCookies)
        \/ DeleteTasks(s, GateCookies, AuthParams)
        \/ DeleteRead(s)
        \/ DeleteWrite(s)

SpecGate == Init /\ [][NextGate]_vars

(***************************************************************************)
(* Vocabulary of the properties.                                           *)
(***************************************************************************)
\* the last response of the single connection of Spec and SpecAuth
Last1 == resps[1]

TaskKinds == {"GET", "POST", "PUT", "DELETE"}

AllSpaces(x) == \A i \in 1..Len(x) : IsSpace(x[i])

\* t is x without its leading and trailing spaces
IsTrimOf(t, x) ==
    /\ t = <<>> \/ (~IsSpace(t[1]) /\ ~IsSpace(t[Len(t)]))
    /\ \E a \in 0..Len(x) :
          /\ a + Len(t) <= Len(x)
          /\ AllSpaces(SubSeq(x, 1, a))
          /\ SubSeq(x, a + 1, a + Len(t)) = t
          /\ AllSpaces(SubSeq(x, a + Len(t) + 1, Len(x)))

\* the text a subtask field is stored as: trimmed, empty when absent
IsStoredText(t, v) == IF v.t = "string" THEN IsTrimOf(t, v.s) ELSE t = <<>>

\* the task with a given id in a caller's list of a file
ViewOf(file, caller, taskId) ==
    LET ts == TasksIn(file, caller)
        j == FindTask(ts, taskId)
    IN IF j = 0 THEN [found |-> FALSE, task |-> NoTask]
       ELSE [found |-> TRUE, task |-> ts[j]]

\* every task or subtask id of a file
TaskIds(t) == {t.id} \cup {t.subTasks[k].id : k \in 1..Len(t.subTasks)}
IdsIn(file) ==
    UNION { UNION { TaskIds(file[i].tasks[j]) : j \in 1..Len(file[i].tasks) } :
            i \in 1..Len(file) }
    \cup {<<>>}

\* round half up of 100 * c / n, in integers
RoundHalfUp(c, n) == (200 * c + n) \div (2 * n)

(***************************************************************************)
(* C1.  Every stored percentage is round-half-up of 100 * completed /      *)
(* total (0 without subtasks): here for the value the PUT handler's        *)
(* calculation gives for an array of subtasks.                             *)
(***************************************************************************)
C1_PercentageIsRoundHalfUp ==
    pctOut # -1 =>
        pctOut = IF Len(pctIn) > 0
                 THEN RoundHalfUp(CompletedCount(pctIn), Len(pctIn))
                 ELSE 0

(***************************************************************************)
(* C2.  The gate rejects a task request (a) without a cookie, (b) with a   *)
(* cookie whose decoded user id is empty, (c) with a cookie of an unknown  *)
(* user.                                                                   *)
(***************************************************************************)
GateRejectCase(r) ==
    \/ ~r.cookie.present
    \/ DecodeUserId(r.cookie.v) = <<>>
    \/ FindUser(r.fileBefore, DecodeUserId(r.cookie.v)) = 0

GetAfterCreate(r) ==
    /\ r.kind = "GET"
    /\ r.status = 200
    /\ r.prev.kind = "POST"
    /\ r.prev.status = 201
    /\ r.prev.caller = r.caller

C3_CreateThenRead ==
    GetAfterCreate(Last1) =>
        /\ Last1.tasks = Last1.prev.before \o <<Last1.prev.task>>
        /\ Last1.prev.task.subTasks = <<>>
        /\ Last1.prev.task.percentage = 0
        /\ \A i \in 1..Len(Last1.prev.before) :
              Last1.prev.before[i].id # Last1.prev.task.id

C3_Witness == GetAfterCreate(Last1) /\ Len(Last1.prev.before) >= 2

(***************************************************************************)
(* C4.  A DELETE of a task id that a DELETE of the same caller has         *)
(* already removed answers 404 and leaves the file as it was.              *)
(***************************************************************************)
C4_DeleteAgainIsNotFound ==
    (Last1.kind = "DELETE" /\ Last1.ran /\ Last1.goneBefore) =>
        (Last1.status = 404 /\ users = Last1.fileBefore)

C4_Witness ==
    /\ Last1.kind = "DELETE"
    /\ Last1.ran
    /\ Last1.goneBefore
    /\ Last1.status = 404
    /\ Cardinality(deleted) >= 1

(***************************************************************************)
(* C5.  After a successful PUT whose body carries a subTasks array, the    *)
(* stored subtasks are the submitted ones in order, each with a non-empty  *)
(* id (the submitted one, or a new one that is stored and returned), a     *)
(* trimmed title and description (empty when absent) and completed equal   *)
(* to the truthiness of the submitted value.                               *)
(***************************************************************************)
PutWithArray(r) ==
    r.kind = "PUT" /\ r.status = 200 /\ r.body.subTasks.t = "array"

C5_UpdateNormalization ==
    PutWithArray(Last1) =>
        LET B == Last1.body.subTasks.a
            v == ViewOf(users, Last1.caller, Last1.param)
            S == v.task.subTasks
        IN /\ v.found
           /\ Last1.task = v.task
           /\ Len(S) = Len(B)
           /\ \A i \in 1..Len(B) :
                 /\ S[i].id # <<>>
                 /\ Truthy(B[i].id) => S[i].id = B[i].id.s
                 /\ ~Truthy(B[i].id) =>
                       /\ S[i].id \notin IdsIn(Last1.fileBefore)
                       /\ \A j \in 1..Len(B) : j # i => S[j].id # S[i].id
                 /\ IsStoredText(S[i].title, B[i].title)
                 /\ IsStoredText(S[i].description, B[i].description)
                 /\ S[i].completed = Truthy(B[i].completed)
                 /\ B[i].completed = StrV(<<"y", "e", "s">>) => S[i].completed
                 /\ B[i].completed = Undef => ~S[i].completed

C5_Witness ==
    /\ PutWithArray(Last1)
    /\ \E i \in 1..Len(Last1.body.subTasks.a) :
          /\ Last1.body.subTasks.a[i].id = Undef
          /\ Last1.body.subTasks.a[i].completed = StrV(<<"y", "e", "s">>)
          /\ Last1.body.subTasks.a[i].title.s # Last1.task.subTasks[i].title

(***************************************************************************)
(* C6.  A PUT or DELETE by an authenticated caller for an id that is not   *)
(* in the caller's task list (an empty list when the record has no tasks   *)
(* array) answers 404 and leaves the file as it was.                       *)
(***************************************************************************)
C6_UnknownIdIsNotFound ==
    ( /\ Last1.kind \in {"PUT", "DELETE"}
      /\ Last1.ran
      /\ ~ViewOf(Last1.fileBefore, Last1.caller, Last1.param).found ) =>
        (Last1.status = 404 /\ users = Last1.fileBefore)

(***************************************************************************)
(* C7.  A POST whose title is missing, empty or blank answers 400 and      *)
(* stores nothing; an accepted POST appends a task with the trimmed title, *)
(* a new id, no subtasks and percentage 0, whatever id, subTasks or        *)
(* percentage the body carries.                                            *)
(***************************************************************************)
TitleBlank(v) == v.t = "undefined" \/ (v.t = "string" /\ AllSpaces(v.s))

C7_CreateValidation ==
    (Last1.kind = "POST" /\ Last1.ran) =>
        /\ TitleBlank(Last1.body.title) =>
              (Last1.status = 400 /\ ~Last1.hasTask /\ users = Last1.fileBefore)
        /\ Last1.status = 201 =>
              LET ts == TasksIn(users, Last1.caller)
                  t == ts[Len(ts)]
              IN /\ ts = TasksIn(Last1.fileBefore, Last1.caller) \o <<t>>
                 /\ t = Last1.task
                 /\ t.title.t = "string"
                 /\ t.title.s # <<>>
                 /\ IsTrimOf(t.title.s, Last1.body.title.s)
                 /\ t.id \notin IdsIn(Last1.fileBefore)
                 /\ Last1.body.id.t = "string" => t.id # Last1.body.id.s
                 /\ t.subTasks = <<>>
                 /\ t.percentage = 0

C7_Witness ==
    /\ Last1.kind = "POST"
    /\ Last1.status = 201
    /\ Last1.body.id.t = "string"
    /\ Last1.body.subTasks.t = "array"
    /\ Last1.body.percentage.t = "number"
    /\ Last1.body.title.s # Last1.task.title.s

(***************************************************************************)
(* C8.  The token a successful login issues, presented as the session      *)
(* cookie, resolves to the user that logged in.                            *)
(***************************************************************************)
PresentsIssuedToken(r) ==
    /\ r.prev.kind = "LOGIN"
    /\ r.prev.status = 200
    /\ r.cookie = CookieV(r.prev.token)

C8_SessionRoundTrip ==
    PresentsIssuedToken(Last1) =>
        /\ Last1.kind = "CHECK" => (Last1.hasUser /\ Last1.user.id = Last1.prev.caller)
        /\ Last1.kind \in TaskKinds => (Last1.ran /\ Last1.caller = Last1.prev.caller)

(***************************************************************************)
(* C9.  A successful login with rememberMe sets a cookie lasting several   *)
(* days, one without rememberMe sets no maxAge, and a login through the    *)
(* form with the box ticked reaches the server with rememberMe = true.     *)
(***************************************************************************)
C9_RememberMe ==
    (Last1.kind = "LOGIN" /\ Last1.status = 200) =>
        /\ Truthy(Last1.body.rememberMe) =>
              (Last1.hasMaxAge /\ Last1.maxAge >= 2 * 24 * 60 * 60 * 1000)
        /\ ~Truthy(Last1.body.rememberMe) => ~Last1.hasMaxAge
        /\ (Last1.origin = "form" /\ Last1.ticked) =>
              Last1.body.rememberMe = BoolV(TRUE)

(***************************************************************************)
(* C10.  Two mutations that both read the file before either wrote it and  *)
(* are both answered with success leave a file that holds the effect of    *)
(* the later writer only: the earlier writer's change is lost.             *)
(***************************************************************************)
Mutation(r) == r.kind \in {"POST", "PUT", "DELETE"} /\ r.status \in {200, 201}

Target(r) == IF r.kind = "POST" THEN r.task.id ELSE r.param

Later == resps[lastSlot]
Earlier == resps[CHOOSE s \in Slots : s # lastSlot]

Overlapped(e, l) ==
    /\ Mutation(e)
    /\ Mutation(l)
    /\ e.snapshot = l.snapshot
    /\ e.caller # l.caller \/ Target(e) # Target(l)
    /\ ViewOf(e.out, e.caller, Target(e)) # ViewOf(e.snapshot, e.caller, Target(e))

C10_LostUpdate ==
    Overlapped(Earlier, Later) =>
        /\ users = Later.out
        /\ ViewOf(users, Earlier.caller, Target(Earlier))
              = ViewOf(Earlier.snapshot, Earlier.caller, Target(Earlier))
        /\ ViewOf(users, Later.caller, Target(Later))
              = ViewOf(Later.out, Later.caller, Target(Later))

\* two PUTs on two different tasks of the same user
C10_Witness ==
    /\ Overlapped(Earlier, Later)
    /\ Earlier.kind = "PUT"
    /\ Later.kind = "PUT"
    /\ Earlier.caller = Later.caller
    /\ Earlier.param # Later.param

\* two mutations by two different users
C10_WitnessTwoUsers ==
    /\ Overlapped(Earlier, Later)
    /\ Earlier.caller # Later.caller

(***************************************************************************)
(* C11.  Whatever the interleaving and whether or not the file can be read *)
(* or written, every request is answered with one of the statuses 200,     *)
(* 201, 400, 401, 404, 500, no exception escapes a handler, and the server *)
(* keeps running.                                                          *)
(***************************************************************************)
AnswerStatuses == {200, 201, 400, 401, 404, 500}

C11_EveryRequestAnswered ==
    /\ up
    /\ \A s \in Slots :
          resps[s].kind # "none" =>
              (resps[s].status \in AnswerStatuses /\ ~resps[s].escaped)

(***************************************************************************)
(* C12.  A POST, PUT or DELETE on the task routes that the gate rejects is *)
(* answered 401 with the error "Not authenticated", and the cookie is      *)
(* cleared whenever the request carried one.                               *)
(***************************************************************************)
RejectedMutation(r) == r.kind \in {"POST", "PUT", "DELETE"} /\ ~r.ran

C12_RejectionSaysNotAuthenticated ==
    RejectedMutation(Last1) =>
        /\ Last1.status = 401
        /\ Last1.error = "Not authenticated"
        /\ Last1.cookie.present => Last1.cleared

\* As the code has it: the status is 401 in every case; the error names the
\* case; the cookie is cleared exactly when its value is not empty.
C12_RejectionNamesTheCase ==
    RejectedMutation(Last1) =>
        LET c == Last1.cookie
            empty == ~c.present \/ c.v = <<>>
        IN /\ Last1.status = 401
           /\ empty => Last1.error = "Not authenticated"
           /\ (~empty /\ DecodeUserId(c.v) = <<>>) =>
                 Last1.error = "Invalid session token"
           /\ (~empty /\ DecodeUserId(c.v) # <<>>) => Last1.error = "User not found"
           /\ Last1.cleared <=> ~empty
           /\ users = Last1.fileBefore

C12_Witness ==
    /\ RejectedMutation(Last1)
    /\ Last1.cookie.present
    /\ Last1.error = "User not found"
    /\ Last1.cleared

(***************************************************************************)
(* C13.  A token that a login has set is still admitted by the gate, as    *)
(* the user who logged in, after that user has signed out and whatever     *)
(* logins followed, as long as the user's record is in the file.           *)
(***************************************************************************)
C13_NoRevocation ==
    \A e \in issued :
        ( /\ e.signedOut
          /\ Last1.kind \in TaskKinds
          /\ Last1.cookie = CookieV(e.token)
          /\ FindUser(Last1.fileBefore, e.user) # 0 ) =>
            (Last1.ran /\ Last1.caller = e.user)

(***************************************************************************)
(* C14.  Two requests whose cookies decode to the same first field, made   *)
(* against the same user file, get the same decision of the gate and the   *)
(* same user, whatever the rest of the cookie is; when rejected they get   *)
(* the same rejection.                                                     *)
(***************************************************************************)
GateRequest(r) == r.kind \in TaskKinds /\ r.cookie.present /\ r.cookie.v # <<>>

GateOutcome(r) ==
    IF r.ran THEN [admitted |-> TRUE, user |-> r.caller, status |-> 0,
                   error |-> "", cleared |-> FALSE]
    ELSE [admitted |-> FALSE, user |-> <<>>, status |-> r.status,
          error |-> r.error, cleared |-> r.cleared]

SameFirstField(q, r) ==
    /\ GateRequest(q)
    /\ GateRequest(r)
    /\ q.fileBefore = r.fileBefore
    /\ DecodeUserId(q.cookie.v) = DecodeUserId(r.cookie.v)

C14_GateReadsFirstFieldOnly ==
    SameFirstField(resps[1], resps[2]) => GateOutcome(resps[1]) = GateOutcome(resps[2])

\* a token the server made and a cookie with the bare id, both admitted
C14_Witness ==
    /\ SameFirstField(resps[1], resps[2])
    /\ resps[1].ran
    /\ {resps[1].cookie, resps[2].cookie} = {CookieV(TokenOf(<<"1">>)), Forged(<<"1">>)}

(***************************************************************************)
(* C15.  With one request at a time, a create, update or delete changes    *)
(* nothing but the tasks of the caller: every other record is as it was,   *)
(* the caller's id, email and password too; and GET returns the caller's   *)
(* own list, in which no task of another user appears.                     *)
(***************************************************************************)
C15_CallerIsolation ==
    /\ (Last1.kind \in {"POST", "PUT", "DELETE"} /\ Last1.ran) =>
          LET before == Last1.fileBefore
          IN /\ Len(users) = Len(before)
             /\ \A i \in 1..Len(users) :
                   /\ users[i].id = before[i].id
                   /\ users[i].email = before[i].email
                   /\ users[i].password = before[i].password
                   /\ before[i].id # Last1.caller => users[i] = before[i]
    /\ (Last1.kind = "GET" /\ Last1.ran) =>
          /\ Last1.tasks = TasksIn(Last1.fileBefore, Last1.caller)
          /\ \A k \in 1..Len(Last1.tasks) : \A i \in 1..Len(users) :
                users[i].id # Last1.caller =>
                    FindTask(TasksOrEmpty(users[i]), Last1.tasks[k].id) = 0

\* a create by one user while another user has tasks
C15_Witness ==
    /\ Last1.kind = "POST"
    /\ Last1.status = 201
    /\ users # Last1.fileBefore
    /\ \E i \in 1..Len(users) :
          /\ users[i].id # Last1.caller
          /\ TasksOrEmpty(users[i]) # <<>>

(***************************************************************************)
(* C16.  When reading or writing the user file fails while a task request  *)
(* with the session cookie of an existing user is handled, the answer is   *)
(* 500, the file is as it was and the cookie is not cleared.               *)
(***************************************************************************)
ValidCookie(r) ==
    /\ r.cookie.present
    /\ r.cookie.v # <<>>
    /\ FindUser(r.fileBefore, DecodeUserId(r.cookie.v)) # 0

\* the step that sent the response read or wrote the file, and that failed
IoFailed(r) ==
    \/ r.step \in {"arrival", "read"} /\ ~r.disk.read
    \/ r.step = "write" /\ ~r.disk.write

C16_StorageFailureIs500 ==
    (Last1.kind \in TaskKinds /\ ValidCookie(Last1) /\ IoFailed(Last1)) =>
        /\ Last1.status = 500
        /\ users = Last1.fileBefore
        /\ ~Last1.cleared

(***************************************************************************)
(* C17.  Every stored task title is a non-empty trimmed string: no create  *)
(* and no update leaves a title that is absent, empty, blank or padded     *)
(* with white space.                                                       *)
(***************************************************************************)
TrimmedTitle(v) ==
    /\ v.t = "string"
    /\ v.s # <<>>
    /\ ~IsSpace(v.s[1])
    /\ ~IsSpace(v.s[Len(v.s)])

C17_StoredTitlesTrimmed ==
    \A i \in 1..Len(users) : \A j \in 1..Len(users[i].tasks) :
        TrimmedTitle(users[i].tasks[j].title)

(***************************************************************************)
(* C18.  The session check on mount: starting it sets isLoading; settling  *)
(* it leaves isLoading false with either the user signed in and the tasks  *)
(* slice holding that user's tasks, or no user and no tasks; and a client  *)
(* that is checking always comes to isLoading false.                       *)
(***************************************************************************)
CheckStarts == sent'["CHECK"] > sent["CHECK"]

CheckSettles == \E q \in flight : q.kind = "CHECK" /\ q \notin flight'

Authenticated(a, t) ==
    /\ a.hasUser
    /\ a.user # NoUser
    /\ t.tasks = a.user.tasks

Anonymous(a, t) ==
    /\ ~a.hasUser
    /\ a.user = NoUser
    /\ t.tasks = <<>>

C18_SessionCheckSettles ==
    /\ [][CheckStarts => auth'.isLoading]_vars
    /\ [][CheckSettles =>
            /\ ~auth'.isLoading
            /\ Authenticated(auth', taskState') \/ Anonymous(auth', taskState')]_vars
    /\ auth.isLoading ~> ~auth.isLoading

C18_Witness ==
    /\ sent["CHECK"] > 0
    /\ \A q \in flight : q.kind # "CHECK"
    /\ ~auth.isLoading
    /\ Authenticated(auth, taskState)
    /\ taskState.tasks # <<>>

C18_WitnessAnonymous ==
    /\ sent["CHECK"] > 0
    /\ \A q \in flight : q.kind # "CHECK"
    /\ ~auth.isLoading
    /\ Anonymous(auth, taskState)

(***************************************************************************)
(* C19.  A client never has more than one mutating request (a create or a  *)
(* delete) in flight: its controls are disabled while one is pending.      *)
(***************************************************************************)
MutationsInFlight == {q \in flight : q.kind \in {"POST", "DELETE"}}

C19_OneMutationInFlight == Cardinality(MutationsInFlight) <= 1

\* the same for the task form alone
C19_OneCreateInFlight == Cardinality({q \in flight : q.kind = "POST"}) <= 1

(***************************************************************************)
(* C20.  The progress circle is red exactly when the percentage is below   *)
(* 50 and green exactly when it is 50 or more, and its arc offset is 100   *)
(* minus the percentage clamped to 0..100.                                 *)
(***************************************************************************)
Clamped(p) == IF p < 0 THEN 0 ELSE IF p > 100 THEN 100 ELSE p

C20_ProgressColourAndArc ==
    progress.drawn =>
        /\ progress.colour = "red" <=> progress.percentage < 50
        /\ progress.colour = "green" <=> progress.percentage >= 50
        /\ progress.offset = 100 - Clamped(progress.percentage)

\* the arc alone, which holds for every percentage drawn
C20_ArcOffset ==
    progress.drawn => progress.offset = 100 - Clamped(progress.percentage)

(***************************************************************************)
(* C21.  With one client and no failure, once the client's create, update  *)
(* and delete round trips are over, its tasks slice is the caller's task   *)
(* list of the user file: the same tasks in the same order, percentage and *)
(* subtasks included.                                                      *)
(***************************************************************************)
RoundTripsDone ==
    /\ auth.hasUser
    /\ flight = {}
    /\ \A s \in Slots : reqs[s].pc = "idle"
    /\ ~view.toasted

C21_ClientMirrorsServer ==
    RoundTripsDone => taskState.tasks = TasksIn(users, auth.user.id)

(***************************************************************************)
(* C22.  Whichever operation of the client called a protected endpoint     *)
(* (create task, edit task, save subtasks, delete task, fetch tasks), when *)
(* its handler has run to its end on a 401 response the client shows the   *)
(* login screen.                                                           *)
(***************************************************************************)
Ended401(q) == q \in flight /\ q \notin flight' /\ resps[q.slot].status = 401

C22_UnauthorizedLeadsToLogin ==
    [][\A q \in flight : Ended401(q) => LoginShown']_vars

\* the two handlers that do navigate: the task form and the edit form
C22_CreateAndEditLeadToLogin ==
    [][\A q \in flight : Ended401(q) /\ q.kind \in {"POST", "PUT"} => LoginShown']_vars

(***************************************************************************)
(* C23.  With one request at a time, after a PUT answered 200 the caller   *)
(* has the same number of tasks, every task but the one of the URL is as   *)
(* it was and where it was, and the task of the URL still has the id of    *)
(* the URL, whatever id the body carries; after a DELETE answered 200 the  *)
(* caller's list is the former list without the task of the URL, the       *)
(* others as they were and in their order.                                 *)
(***************************************************************************)
C23_UpdateAndDeleteFrame ==
    LET before == TasksIn(Last1.fileBefore, Last1.caller)
        after == TasksIn(users, Last1.caller)
        i == FindTask(before, Last1.param)
    IN /\ (Last1.kind = "PUT" /\ Last1.status = 200) =>
             /\ i # 0
             /\ Len(after) = Len(before)
             /\ \A j \in 1..Len(before) : j # i => after[j] = before[j]
             /\ after[i].id = Last1.param
             /\ after[i].id = before[i].id
             /\ Last1.task.id = Last1.param
       /\ (Last1.kind = "DELETE" /\ Last1.status = 200) =>
             /\ i # 0
             /\ Len(after) = Len(before) - 1
             /\ \A j \in 1..Len(after) :
                   after[j] = before[IF j < i THEN j ELSE j + 1]
             /\ FindTask(after, Last1.param) = 0

\* an update whose body carries another id, of a task that has a neighbour
C23_Witness ==
    /\ Last1.kind = "PUT"
    /\ Last1.status = 200
    /\ Last1.body.id = StrV(<<"z", "z">>)
    /\ Len(TasksIn(users, Last1.caller)) > 1
    /\ users # Last1.fileBefore

\* a delete of the first of several tasks
C23_WitnessDelete ==
    /\ Last1.kind = "DELETE"
    /\ Last1.status = 200
    /\ FindTask(TasksIn(Last1.fileBefore, Last1.caller), Last1.param) = 1
    /\ Len(TasksIn(users, Last1.caller)) > 0

(***************************************************************************)
(* C24.  When the task view has opened with an empty tasks slice and its   *)
(* fetch of GET /api/tasks succeeds, every task the response lists is in   *)
(* the tasks slice once the response has been handled.                     *)
(***************************************************************************)
Fetched(q) ==
    /\ q \in flight
    /\ q \notin flight'
    /\ q.kind = "GET"
    /\ resps[q.slot].status = 200

C24_FetchFillsTheSlice ==
    [][\A q \in flight :
          Fetched(q) =>
              \A k \in 1..Len(resps[q.slot].tasks) :
                  FindTask(taskState'.tasks, resps[q.slot].tasks[k].id) # 0]_vars

\* what the fetch does: a slice that was empty stays empty
C24_FetchLeavesEmptySliceEmpty ==
    [][\A q \in flight :
          Fetched(q) /\ taskState.tasks = <<>> => taskState'.tasks = <<>>]_vars

(***************************************************************************)
(* C25.  Whatever the search text and the status filter, when subtask d of *)
(* the displayed list is dropped at a position of that list, the sequence  *)
(* sent to be saved has the subtasks of the task's former sequence, each   *)
(* once; without d it is the former sequence without d; and the percentage *)
(* sent is the task's former percentage.                                   *)
(***************************************************************************)
Dropped(q) == q \in flight' /\ q \notin flight /\ q.op = "reorder"

C25_DragMovesTheDraggedSubTask ==
    [][\A q \in flight' :
          Dropped(q) =>
              LET old == ChosenTask(taskState, view)
                  new == q.task
                  d == view'.moved
              IN /\ Len(new.subTasks) = Len(old.subTasks)
                 /\ \A i \in 1..Len(old.subTasks) :
                       \E j \in 1..Len(new.subTasks) : new.subTasks[j] = old.subTasks[i]
                 /\ Removed(new.subTasks, d) = Removed(old.subTasks, d)
                 /\ new.percentage = old.percentage]_vars

\* the same without a filter in effect
C25_DragUnfiltered ==
    [][\A q \in flight' :
          (Dropped(q) /\ view.status = "all" /\ taskState.searchQuery = <<>>) =>
              Removed(q.task.subTasks, view'.moved) =
                  Removed(ChosenTask(taskState, view).subTasks, view'.moved)]_vars

\* the sequence is a permutation with the percentage kept, filter or not
C25_DragPermutes ==
    [][\A q \in flight' :
          Dropped(q) =>
              LET old == ChosenTask(taskState, view)
              IN /\ Len(q.task.subTasks) = Len(old.subTasks)
                 /\ \A i \in 1..Len(old.subTasks) :
                       \E j \in 1..Len(old.subTasks) :
                           q.task.subTasks[j] = old.subTasks[i]
                 /\ q.task.percentage = old.percentage]_vars

(***************************************************************************)
(* C26.  The user file changes only in the step in which a create, update  *)
(* or delete is answered 200 or 201; and when a request is answered 400,   *)
(* 401 or 404, or is a login, a session check, a logout or a GET of the    *)
(* tasks, the file is what it was when the request arrived.                *)
(***************************************************************************)
Quiet(r) ==
    \/ r.kind \in {"LOGIN", "CHECK", "LOGOUT", "GET"}
    \/ r.status \in {400, 401, 404}

C26_OnlySuccessWrites ==
    [][/\ users' # users =>
             \E s \in Slots :
                 /\ reqs[s].kind \in {"POST", "PUT", "DELETE"}
                 /\ reqs[s].pc = "write"
                 /\ reqs'[s].pc = "idle"
                 /\ resps'[s].status \in {200, 201}
       /\ \A s \in Slots :
             (resps'[s] # resps[s] /\ Quiet(resps'[s])) =>
                 /\ users' = users
                 /\ users' = resps'[s].fileBefore]_vars

\* a delete of a task that is not there, after the file has been written
C26_Witness ==
    /\ Last1.kind = "DELETE"
    /\ Last1.status = 404
    /\ users # SeedUsers

\* a create refused for its title after the file has been written
C26_WitnessRefused ==
    /\ Last1.kind = "POST"
    /\ Last1.status = 400
    /\ users # SeedUsers

(***************************************************************************)
(* C27.  No response carries a password: the user of a login or session    *)
(* check response is a stored record with the password taken out and the   *)
(* tasks defaulted to [], and the responses of the task endpoints and of   *)
(* logout carry no user at all.                                            *)
(***************************************************************************)
C27_NoPasswordInResponses ==
    \A s \in Slots :
        LET r == resps[s]
        IN /\ r.user.password = <<>>
           /\ \A i \in 1..Len(users) : users[i].password # r.user.password
           /\ r.hasUser =>
                 /\ r.kind \in {"LOGIN", "CHECK"}
                 /\ \E i \in 1..Len(r.fileBefore) :
                       /\ r.fileBefore[i].id = r.caller
                       /\ r.user = [r.fileBefore[i] EXCEPT
                                       !.password = <<>>, !.hasTasks = TRUE,
                                       !.tasks = TasksOrEmpty(r.fileBefore[i])]
           /\ ~r.hasUser => r.user = NoUser

\* a login and a session check that both returned a user
C27_Witness ==
    /\ Last1.kind = "CHECK"
    /\ Last1.hasUser
    /\ Last1.prev.kind = "LOGIN"
    /\ Last1.prev.status = 200

(***************************************************************************)
(* C28.  For the same cookie and the same user file, the session check     *)
(* returns a user exactly when the gate admits a task request, and then    *)
(* the user returned is the record the gate attached, without its          *)
(* password.                                                               *)
(***************************************************************************)
SameCookieAndFile ==
    /\ resps[1].kind = "CHECK"
    /\ resps[2].kind = "GET"
    /\ resps[1].cookie = resps[2].cookie
    /\ resps[1].fileBefore = resps[2].fileBefore

C28_SessionCheckAgreesWithGate ==
    SameCookieAndFile =>
        /\ resps[1].hasUser <=> resps[2].ran
        /\ resps[1].hasUser =>
              /\ resps[1].caller = resps[2].caller
              /\ resps[1].user.tasks = resps[2].tasks

\* the same where no stored user has an empty id
C28_AgreesWithoutEmptyId ==
    (SameCookieAndFile /\ \A i \in 1..Len(users) : users[i].id # <<>>) =>
        /\ resps[1].hasUser <=> resps[2].ran
        /\ resps[1].hasUser =>
              /\ resps[1].caller = resps[2].caller
              /\ resps[1].user.tasks = resps[2].tasks

\* both admit the cookie of a stored user
C28_BothAdmit == SameCookieAndFile /\ resps[1].hasUser /\ resps[2].ran

(***************************************************************************)
(* C29.  In the task view, after any clicks, arrow keys, subtask           *)
(* deletions, search edits and status changes, the selected index is -1 or *)
(* an index into the list of subtasks displayed, and no shortcut has found *)
(* its current subtask undefined.                                          *)
(***************************************************************************)
C29_SelectedIndexInRange ==
    TaskViewShown =>
        /\ \/ view.selectedIndex = -1
           \/ /\ view.selectedIndex >= 0
              /\ view.selectedIndex < Len(filteredSubTasks(taskState, view))
        /\ ~view.thrown

\* the index alone
C29_IndexOnly ==
    TaskViewShown =>
        \/ view.selectedIndex = -1
        \/ /\ view.selectedIndex >= 0
           /\ view.selectedIndex < Len(filteredSubTasks(taskState, view))

\* a shortcut read the id of an undefined subtask
C29_ShortcutThrew == view.thrown

(***************************************************************************)
(* C30.  From the moment sign-out has cleared the client's state until the *)
(* next successful login, the tasks slice is empty, whatever responses to  *)
(* earlier requests arrive in between.                                     *)
(***************************************************************************)
SignedOut == ~auth.hasUser /\ \E e \in issued : e.signedOut

C30_SliceStaysEmptyAfterSignOut == SignedOut => taskState.tasks = <<>>

\* what sign-out itself leaves: an empty slice
C30_SignOutClears ==
    [][(auth.hasUser /\ ~auth'.hasUser) => taskState'.tasks = <<>>]_vars

\* late answers to a delete or an edit leave the empty slice empty
C30_OnlyCreateRefills ==
    [][(SignedOut /\ taskState.tasks = <<>> /\ taskState'.tasks # <<>>) =>
          \/ auth'.hasUser
          \/ \E q \in flight : q \notin flight' /\ q.kind = "POST"]_vars

====
